---- MODULE Spec2Model ----
(***************************************************************************)
(* State-machine model of the git-utils command-line tools.                *)
(*                                                                         *)
(*   git-branch-delete : crates/git-branch-delete/src/main.rs              *)
(*   branch primitives : crates/git-utils-core/src/git.rs                  *)
(*   git-repo delete   : crates/git-repo/src/delete.rs                     *)
(*   git-repo clone    : crates/git-repo/src/clone.rs                      *)
(*                                                                         *)
(* One invocation of one tool is one behaviour: the process parses its     *)
(* arguments, opens the repository, and then runs to an exit.  Every       *)
(* interactive prompt and every external outcome is an input chosen with   *)
(* \E in the action that reads it.                                         *)
(***************************************************************************)
EXTENDS Integers, Sequences, FiniteSets, TLC

\* ------------------------------------------------------------------ bounds
\* Number of commits of the commit graph the repository is drawn from.
MaxCommit == 3

\* Largest number of entries of the file system git-repo delete is run on.
MaxEntries == 4

\* Largest number of local branches of a repository an invocation is run in.
MaxBranches == 3

\* ------------------------------------------------------- commit graph (git)
Commits == 1..MaxCommit

\* "no commit": the value of a branch name that is not a local branch
NoCommit == 0

\* Parent commits.  Commit 1 is the root, 2 and 3 are siblings on top of 1,
\* 4 sits on top of 2, every fifth commit merges its two predecessors.
Parents(c) ==
    IF c <= 1 THEN {}
    ELSE IF c % 5 = 0 THEN {c - 1, c - 2}
    ELSE {c \div 2}

RECURSIVE Ancestors(_)
\* Proper ancestors of a commit (the commit itself excluded).
Ancestors(c) == Parents(c) \cup UNION {Ancestors(p) : p \in Parents(c)}

\* a is reachable from b: a is b or a proper ancestor of b
Reachable(a, b) == a = b \/ a \in Ancestors(b)

\* Neither commit is reachable from the other.
Unrelated(a, b) == ~Reachable(a, b) /\ ~Reachable(b, a)

\* ------------------------------------------------------------ branch names
\* The names a local branch of the repository can have.
BranchNames == {"main", "develop", "x", "y"}

\* Order in which the backend enumerates local branches (by reference name).
BranchOrder == <<"develop", "main", "x", "y">>

\* The fixed candidate list of detect_base_branch.
BaseCandidates == <<"main", "master", "develop">>

\* Value of the git-branch-delete.base key when it is not configured.
NoConfig == "<unset>"

\* HEAD does not point at a branch.
Detached == "<detached>"

\* Result values: ok tells Ok from Err, val carries an Ok(bool),
\* name carries an Ok(String), err names the error.
OkBool(v) == [ok |-> TRUE, val |-> v, name |-> "", err |-> ""]
OkName(n) == [ok |-> TRUE, val |-> FALSE, name |-> n, err |-> ""]
OkUnit == [ok |-> TRUE, val |-> FALSE, name |-> "", err |-> ""]
Err(e) == [ok |-> FALSE, val |-> FALSE, name |-> "", err |-> e]

\* an Ok(Vec<PathBuf>)
OkPaths(l) == [ok |-> TRUE, val |-> FALSE, name |-> "", err |-> "", paths |-> l]

\* unwrap_or(true): a failed query counts as merged
unwrap_or_true(r) == IF r.ok THEN r.val ELSE TRUE

\* Result::unwrap_or_default / unwrap_or(false) on a Result<bool>
unwrap_or_default(r) == IF r.ok THEN r.val ELSE FALSE

\* repo.find_branch(name, BranchType::Local).is_ok()
find_branch_ok(rf, name) == name \in DOMAIN rf /\ rf[name] # NoCommit

\* Repository::graph_descendant_of(commit, ancestor): commit is a descendant
\* of ancestor; a commit is not a descendant of itself.
graph_descendant_of(commit, ancestor) ==
    commit # ancestor /\ ancestor \in Ancestors(commit)

\* is_branch_merged with the two arguments of graph_descendant_of exchanged
is_branch_merged_swapped(rf, branch_name, base_branch) ==
    IF ~find_branch_ok(rf, base_branch) THEN Err("Git")
    ELSE IF ~find_branch_ok(rf, branch_name) THEN Err("Git")
    ELSE OkBool(graph_descendant_of(rf[branch_name], rf[base_branch]))

\* git.rs is_branch_merged
is_branch_merged(rf, branch_name, base_branch) ==
    IF ~find_branch_ok(rf, base_branch) THEN Err("Git")
    ELSE IF ~find_branch_ok(rf, branch_name) THEN Err("Git")
    ELSE OkBool(graph_descendant_of(rf[base_branch], rf[branch_name]))

RECURSIVE FirstExisting(_, _, _)
\* the for loop of detect_base_branch from candidate i on
FirstExisting(rf, cands, i) ==
    IF i > Len(cands) THEN Err("BaseBranchNotFound")
    ELSE IF find_branch_ok(rf, cands[i]) THEN OkName(cands[i])
    ELSE FirstExisting(rf, cands, i + 1)

\* detect_base_branch without the configuration lookup of lines 48-54
detect_base_branch_ignores_config(rf, cfg) ==
    FirstExisting(rf, BaseCandidates, 1)

\* git.rs detect_base_branch
detect_base_branch(rf, cfg) ==
    IF cfg # NoConfig THEN OkName(cfg)
    ELSE FirstExisting(rf, BaseCandidates, 1)

\* get_current_branch without the is_branch test of lines 26-28
get_current_branch_any_head(rf, hd) == OkName(hd)

\* git.rs get_current_branch
get_current_branch(rf, hd) ==
    IF hd = Detached THEN Err("HEAD is detached")
    ELSE IF ~find_branch_ok(rf, hd) THEN Err("Git")
    ELSE OkName(hd)

\* git.rs get_local_branches
get_local_branches(rf) == SelectSeq(BranchOrder, LAMBDA b : rf[b] # NoCommit)

\* delete_branch without the merge check of lines 78-86
delete_branch_result_unchecked(rf, cfg, branch_name, force) ==
    IF ~find_branch_ok(rf, branch_name) THEN Err("Git") ELSE OkUnit

\* git.rs delete_branch: the Result it returns
delete_branch_result(rf, cfg, branch_name, force) ==
    IF ~find_branch_ok(rf, branch_name) THEN Err("Git")
    ELSE IF ~force
    THEN LET base == detect_base_branch(rf, cfg) IN
         IF ~base.ok THEN base
         ELSE LET merged == is_branch_merged(rf, branch_name, base.name) IN
              IF ~merged.ok THEN merged
              ELSE IF ~merged.val THEN Err("not merged")
              ELSE OkUnit
    ELSE OkUnit

\* delete_branch calling delete() on the branch it resolved as the base
delete_branch_refs_of_base(rf, cfg, branch_name, force) ==
    IF delete_branch_result(rf, cfg, branch_name, force).ok /\ ~force
    THEN [b \in DOMAIN rf |->
            IF b = detect_base_branch(rf, cfg).name THEN NoCommit ELSE rf[b]]
    ELSE rf

\* git.rs delete_branch: the local branches it leaves
delete_branch_refs(rf, cfg, branch_name, force) ==
    IF delete_branch_result(rf, cfg, branch_name, force).ok
    THEN [rf EXCEPT ![branch_name] = NoCommit]
    ELSE rf

\* ------------------------------------------------------------------- state
VARIABLES
    pc,                   \* position of the process in main
    exit,                 \* "running", or how the process ended
    cli,                  \* the parsed Cli struct
    opened,               \* git::open_repo has returned a Repository
    refs,                 \* local branches of the repository: name -> tip
    head,                 \* the branch HEAD points at, or Detached
    configBase,           \* git config git-branch-delete.base, or NoConfig
    current_branch,       \* main: current_branch
    base_branch,          \* main: base_branch
    branches,             \* main: branches
    branches_to_delete,   \* main: branches_to_delete (selected while prompting)
    idx,                  \* position of the running for loop
    deleted_count,        \* main: deleted_count
    remote_deleted_count, \* main: remote_deleted_count
    prompts,              \* Confirm prompts shown so far, with their answers
    pushed,               \* branches `git push origin --delete` was run for
    stdout,               \* lines printed to standard output
    stderr,               \* lines printed to standard error
    call,                 \* a primitive called on its own: name and arguments
    ret,                  \* the Result that call returned
    rd_args,              \* delete_repo: repo_path, interactive, force, dry_run
    fs,                   \* the directories on disk: path -> kind
    target_path,          \* delete_repo: target_path
    rd_status,            \* delete_repo: what the two safety checks return
    clone_args,           \* clone_repo: shallow, bare, branch; is stdin a terminal
    clone_dirs,           \* root/domain/user: repo and repo-N -> what is there
    clone_ops,            \* file-system and git operations clone_repo has run
    pm_cli,               \* git-pr-merged: the parsed Cli struct
    pr_numbers,           \* git-pr-merged main: pr_numbers
    pr_idx,               \* fetch_pr_details: position of the for loop
    pulls                 \* fetch_pr_details: pulls, by number

\* the state of git-pr-merged
prVars == <<pm_cli, pr_numbers, pr_idx, pulls>>

vars == <<pc, exit, cli, opened, refs, head, configBase, current_branch,
          base_branch, branches, branches_to_delete, idx, deleted_count,
          remote_deleted_count, prompts, pushed, stdout, stderr, call, ret,
          rd_args, fs, target_path, rd_status, clone_args, clone_dirs, clone_ops, prVars>>

\* a step of git-branch-delete leaves everything else alone
BranchDeleteOnly ==
    UNCHANGED <<call, ret, rd_args, fs, target_path, rd_status, clone_args,
                clone_dirs, clone_ops, prVars>>

\* a step of git-repo delete leaves everything else alone
RepoDeleteOnly ==
    UNCHANGED <<cli, opened, refs, head, configBase, current_branch, base_branch,
                branches, branches_to_delete, idx, deleted_count,
                remote_deleted_count, pushed, call, ret, clone_args, clone_dirs,
                clone_ops, prVars>>

\* a step of git-repo clone leaves everything else alone
CloneOnly ==
    UNCHANGED <<cli, opened, refs, head, configBase, current_branch, base_branch,
                branches, branches_to_delete, idx, deleted_count,
                remote_deleted_count, pushed, call, ret, rd_args, fs,
                target_path, rd_status, clone_args, prVars>>

\* ------------------------------------------------------------------ inputs
\* every combination of the five flags of Cli
CliSpace == [all : BOOLEAN, merged : BOOLEAN, select : BOOLEAN,
             force : BOOLEAN, remote : BOOLEAN]

\* the repositories an invocation may find itself in
RepoRefs ==
    {rf \in [BranchNames -> {NoCommit} \cup Commits] :
        Cardinality({b \in BranchNames : rf[b] # NoCommit}) <= MaxBranches}
HeadValues == BranchNames \cup {Detached}
ConfigValues == {NoConfig, "develop"}

\* what the user does at a Confirm prompt; "cancel" is Esc / Ctrl-C
Answers == {"yes", "no", "cancel"}

NoCli == [all |-> FALSE, merged |-> FALSE, select |-> FALSE,
          force |-> FALSE, remote |-> FALSE]
NoRefs == [b \in BranchNames |-> NoCommit]
NoCall == [fn |-> "", branch |-> "", base |-> ""]

\* ----------------------------------------------------------------- helpers
\* one printed line: what it is, the branch and label it names, its number
Line(kind, branch, label, n) == <<kind, branch, label, n>>

Range(seq) == {seq[i] : i \in 1..Len(seq)}

\* clap_conflict without the conflicts_with of --force
clap_conflict_force_free(c) ==
    \/ c.all /\ (c.merged \/ c.select)
    \/ c.select /\ c.all

\* clap: conflicts_with / conflicts_with_all of struct Cli
clap_conflict(c) ==
    \/ c.all /\ (c.merged \/ c.select)
    \/ c.select /\ c.all
    \/ c.force /\ c.merged

\* Candidates that forgets to take the base branch out
Candidates_with_base(rf, cur, base) ==
    SelectSeq(get_local_branches(rf), LAMBDA b : b # cur)

\* main lines 42-45: all local branches minus the current and the base branch
Candidates(rf, cur, base) ==
    SelectSeq(get_local_branches(rf), LAMBDA b : b # cur /\ b # base)

\* MergeFilter that filters whenever --all is absent, force or not
MergeFilter_ignores_force(c, rf, brs, base) ==
    IF ~c.all
    THEN SelectSeq(brs, LAMBDA b : unwrap_or_default(is_branch_merged(rf, b, base)))
    ELSE brs

\* MergeFilter that filters in every mode but force
MergeFilter_ignores_all(c, rf, brs, base) ==
    IF ~c.force
    THEN SelectSeq(brs, LAMBDA b : unwrap_or_default(is_branch_merged(rf, b, base)))
    ELSE brs

\* main lines 47-50: the merge filter
MergeFilter(c, rf, brs, base) ==
    IF ~c.all /\ ~c.force
    THEN SelectSeq(brs, LAMBDA b : unwrap_or_default(is_branch_merged(rf, b, base)))
    ELSE brs

\* SelectChoice that selects the branch whatever the answer
SelectChoice_always(answer, selected, branch) == Append(selected, branch)

\* main lines 72-74: the selection after one per-branch answer
SelectChoice(answer, selected, branch) ==
    IF answer = "yes" THEN Append(selected, branch) ELSE selected

\* BatchChoice that goes on whatever the answer
BatchChoice_always(answer, brs) == brs

\* main lines 93-97: the selection after the batch answer
BatchChoice(answer, brs) == IF answer = "yes" THEN brs ELSE <<>>

\* ReportLines that counts every deletion, local or remote, as a local one
ReportLines_sum(c, deleted, remote_deleted) ==
    {Line("Deleted local branches", "", "", deleted + remote_deleted)}
    \cup (IF c.remote /\ remote_deleted > 0
          THEN {Line("Deleted remote branches", "", "", remote_deleted)}
          ELSE {})

\* main lines 143-146: the lines of the final report
ReportLines(c, deleted, remote_deleted) ==
    {Line("Deleted local branches", "", "", deleted)}
    \cup (IF c.remote /\ remote_deleted > 0
          THEN {Line("Deleted remote branches", "", "", remote_deleted)}
          ELSE {})

\* the label a branch is shown with
Label(rf, b, base) ==
    IF unwrap_or_default(is_branch_merged(rf, b, base)) THEN "merged" ELSE "plain"

\* the process ends: how, and with which last line of main reached
Exit(how) == pc' = "exit" /\ exit' = how

\* ----------------------------------------------------------------- actions
\* main line 32: Cli::parse()
Parse ==
    /\ pc = "parse"
    /\ \E c \in CliSpace :
        /\ cli' = c
        /\ IF clap_conflict(c) THEN Exit("usage") ELSE pc' = "open" /\ exit' = exit
    /\ UNCHANGED <<opened, refs, head, configBase, current_branch, base_branch,
                   branches, branches_to_delete, idx, deleted_count,
                   remote_deleted_count, prompts, pushed, stdout, stderr>>
    /\ BranchDeleteOnly

\* main line 34, open_repo fails: not inside a repository
OpenRepoFails ==
    /\ pc = "open"
    /\ Exit("error")
    /\ stderr' = stderr \cup {<<"", "NotGitRepository">>}
    /\ UNCHANGED <<cli, opened, refs, head, configBase, current_branch,
                   base_branch, branches, branches_to_delete, idx,
                   deleted_count, remote_deleted_count, prompts, pushed, stdout>>
    /\ BranchDeleteOnly

\* main lines 34-45: open the repository, resolve current and base branch,
\* collect the candidates
OpenRepo ==
    /\ pc = "open"
    /\ \E rf \in RepoRefs, hd \in HeadValues, cfg \in ConfigValues :
        LET cur == get_current_branch(rf, hd)
            base == detect_base_branch(rf, cfg)
        IN  /\ opened' = TRUE
            /\ refs' = rf
            /\ head' = hd
            /\ configBase' = cfg
            /\ IF ~cur.ok
               THEN /\ Exit("error")
                    /\ stderr' = stderr \cup {<<"", cur.err>>}
                    /\ UNCHANGED <<current_branch, base_branch, branches, stdout>>
               ELSE IF ~base.ok
               THEN /\ Exit("error")
                    /\ stderr' = stderr \cup {<<"", base.err>>}
                    /\ current_branch' = cur.name
                    /\ UNCHANGED <<base_branch, branches, stdout>>
               ELSE /\ pc' = "filter"
                    /\ exit' = exit
                    /\ current_branch' = cur.name
                    /\ base_branch' = base.name
                    /\ branches' = Candidates(rf, cur.name, base.name)
                    /\ stdout' = stdout \cup {Line("base", base.name, "", 0), Line("current", cur.name, "", 0)}
                    /\ stderr' = stderr
    /\ UNCHANGED <<cli, branches_to_delete, idx, deleted_count,
                   remote_deleted_count, prompts, pushed>>
    /\ BranchDeleteOnly

\* main lines 47-55: the merge filter, and the early return on no candidates
Filter ==
    /\ pc = "filter"
    /\ LET kept == MergeFilter(cli, refs, branches, base_branch)
       IN  /\ branches' = kept
           /\ IF kept = <<>>
              THEN Exit("ok") /\ stdout' = stdout \cup {Line("No branches to delete", "", "", 0)}
              ELSE /\ pc' = IF cli.select THEN "select" ELSE "confirm"
                   /\ exit' = exit
                   /\ stdout' = stdout
    /\ idx' = 1
    /\ UNCHANGED <<cli, opened, refs, head, configBase, current_branch, base_branch,
                   branches_to_delete, deleted_count, remote_deleted_count,
                   prompts, pushed, stderr>>
    /\ BranchDeleteOnly

\* main lines 100-104 and 106-107: what follows the choice of branches_to_delete
AfterChoice(chosen) ==
    IF chosen = <<>>
    THEN Exit("ok") /\ stdout' = stdout \cup {Line("No branches deleted", "", "", 0)}
    ELSE pc' = "delete" /\ exit' = exit /\ stdout' = stdout

\* main lines 60-75: one iteration of the select loop
SelectPrompt ==
    /\ pc = "select"
    /\ idx <= Len(branches)
    /\ \E answer \in Answers :
        LET branch == branches[idx]
            label == Label(refs, branch, base_branch)
            selected == SelectChoice(answer, branches_to_delete, branch)
        IN  /\ prompts' = prompts \cup {[kind |-> "select", branch |-> branch,
                                         label |-> label, answer |-> answer]}
            /\ IF answer = "cancel"
               THEN /\ Exit("cancelled")
                    /\ UNCHANGED <<branches_to_delete, idx, stdout>>
               ELSE /\ branches_to_delete' = selected
                    /\ IF idx = Len(branches)
                       THEN AfterChoice(selected) /\ idx' = 1
                       ELSE /\ idx' = idx + 1
                            /\ UNCHANGED <<pc, exit, stdout>>
    /\ UNCHANGED <<cli, opened, refs, head, configBase, current_branch, base_branch,
                   branches, deleted_count, remote_deleted_count, pushed, stderr>>
    /\ BranchDeleteOnly

\* main lines 78-98: list the branches and ask once for the whole batch
ConfirmBatch ==
    /\ pc = "confirm"
    /\ \E answer \in Answers :
        LET listed == {Line("list", b, Label(refs, b, base_branch), 0) : b \in Range(branches)}
            chosen == BatchChoice(answer, branches)
        IN  /\ prompts' = prompts \cup {[kind |-> "batch", branch |-> b, label |-> "",
                                         answer |-> answer] : b \in Range(branches)}
            /\ IF answer = "cancel"
               THEN /\ Exit("cancelled")
                    /\ stdout' = stdout \cup listed
                    /\ UNCHANGED branches_to_delete
               ELSE /\ branches_to_delete' = chosen
                    /\ IF chosen = <<>>
                       THEN Exit("ok") /\ stdout' = stdout \cup listed
                                                  \cup {Line("No branches deleted", "", "", 0)}
                       ELSE pc' = "delete" /\ exit' = exit /\ stdout' = stdout \cup listed
    /\ idx' = 1
    /\ UNCHANGED <<cli, opened, refs, head, configBase, current_branch, base_branch,
                   branches, deleted_count, remote_deleted_count, pushed, stderr>>
    /\ BranchDeleteOnly

\* outcomes of git::remote_branch_exists: Ok(true), Ok(false), Err
RemoteExists == {"yes", "no", "err"}

\* main lines 109-117 and 139: delete one local branch, then look for its
\* remote-tracking branch
DeleteLocal ==
    /\ pc = "delete"
    /\ idx <= Len(branches_to_delete)
    /\ LET branch == branches_to_delete[idx]
           res == delete_branch_result(refs, configBase, branch, cli.force)
       IN  /\ refs' = delete_branch_refs(refs, configBase, branch, cli.force)
           /\ IF res.ok
              THEN /\ deleted_count' = deleted_count + 1
                   /\ stdout' = stdout \cup {Line("Deleted local branch", branch, "", 0)}
                   /\ IF cli.remote
                      THEN \E found \in RemoteExists :
                            CASE found = "err" ->
                                    /\ Exit("error")
                                    /\ stderr' = stderr \cup {<<branch, "Git">>}
                                    /\ idx' = idx
                              [] found = "yes" ->
                                    /\ pc' = "remote_prompt"
                                    /\ UNCHANGED <<exit, stderr, idx>>
                              [] found = "no" ->
                                    /\ idx' = idx + 1
                                    /\ UNCHANGED <<pc, exit, stderr>>
                      ELSE /\ idx' = idx + 1
                           /\ UNCHANGED <<pc, exit, stderr>>
              ELSE /\ stderr' = stderr \cup {<<branch, res.err>>}
                   /\ idx' = idx + 1
                   /\ UNCHANGED <<pc, exit, deleted_count, stdout>>
    /\ UNCHANGED <<cli, opened, head, configBase, current_branch, base_branch,
                   branches, branches_to_delete, remote_deleted_count, prompts,
                   pushed>>
    /\ BranchDeleteOnly

\* main lines 118-136: offer the remote branch, git::delete_remote_branch
RemotePrompt ==
    /\ pc = "remote_prompt"
    /\ \E answer \in Answers, push_ok \in BOOLEAN :
        LET branch == branches_to_delete[idx]
        IN  /\ prompts' = prompts \cup {[kind |-> "remote", branch |-> branch,
                                         label |-> "", answer |-> answer]}
            /\ CASE answer = "cancel" ->
                    /\ Exit("cancelled")
                    /\ UNCHANGED <<idx, pushed, remote_deleted_count, stdout, stderr>>
                 [] answer = "no" ->
                    /\ pc' = "delete"
                    /\ idx' = idx + 1
                    /\ UNCHANGED <<exit, pushed, remote_deleted_count, stdout, stderr>>
                 [] answer = "yes" ->
                    /\ pc' = "delete"
                    /\ idx' = idx + 1
                    /\ pushed' = pushed \cup {branch}
                    /\ exit' = exit
                    /\ IF push_ok
                       THEN /\ remote_deleted_count' = remote_deleted_count + 1
                            /\ stdout' = stdout \cup {Line("Deleted remote branch", branch, "", 0)}
                            /\ stderr' = stderr
                       ELSE /\ stderr' = stderr \cup {<<branch, "Failed to delete remote branch">>}
                            /\ UNCHANGED <<remote_deleted_count, stdout>>
    /\ UNCHANGED <<cli, opened, refs, head, configBase, current_branch, base_branch,
                   branches, branches_to_delete, deleted_count>>
    /\ BranchDeleteOnly

\* main lines 143-148: the final report
Report ==
    /\ pc = "delete"
    /\ idx > Len(branches_to_delete)
    /\ Exit("ok")
    /\ stdout' = stdout \cup ReportLines(cli, deleted_count, remote_deleted_count)
    /\ UNCHANGED <<cli, opened, refs, head, configBase, current_branch, base_branch,
                   branches, branches_to_delete, idx, deleted_count,
                   remote_deleted_count, prompts, pushed, stderr>>
    /\ BranchDeleteOnly

\* ====================================================== git-repo delete
\* ------------------------------------------------------------- file system
\* git config git-repo.root
RepoRoot == <<"root">>

\* the directories a file system may hold, as absolute paths
FsNodes == {<<"root">>, <<"root", "a">>, <<"root", "a", "b">>,
            <<"root", "a", "b", "c">>, <<"root", "a", "b", "c", "d">>,
            <<"root", "e">>, <<"out">>}

\* the order in which read_dir lists entries
FsOrder == <<<<"root">>, <<"root", "a">>, <<"root", "a", "b">>,
             <<"root", "a", "b", "c">>, <<"root", "a", "b", "c", "d">>,
             <<"root", "e">>, <<"out">>>>

\* what sits at a path: nothing, a plain file, a directory, or a directory
\* that holds a .git entry
Kinds == {"none", "file", "dir", "repo"}

ParentPath(p) == SubSeq(p, 1, Len(p) - 1)

\* an entry exists only inside an existing directory
FsStates ==
    {f \in [FsNodes -> Kinds] :
        \A n \in FsNodes :
            (f[n] # "none" /\ Len(n) > 1) => f[ParentPath(n)] \in {"dir", "repo"}}

NoFs == [n \in FsNodes |-> "none"]

\* the file systems an invocation of git-repo delete may find
DeleteFsStates ==
    {f \in FsStates : Cardinality({n \in FsNodes : f[n] # "none"}) <= MaxEntries}

\* the path of an entry that does not exist
Missing == <<"?">>

KindOf(f, p) ==
    IF p = <<>> THEN "dir"
    ELSE IF p \in FsNodes THEN f[p]
    ELSE "none"

RECURSIVE Walk(_, _, _)
\* the entry the operating system reaches from cur along the components rest
Walk(f, cur, rest) ==
    IF rest = <<>> THEN cur
    ELSE IF KindOf(f, cur) \notin {"dir", "repo"} THEN Missing
    ELSE IF Head(rest) = ".." THEN Walk(f, ParentPath(cur), Tail(rest))
    ELSE Walk(f, Append(cur, Head(rest)), Tail(rest))

\* the entry a path names
Resolve(f, path) == Walk(f, <<>>, path)

\* Path::exists
path_exists(f, path) == KindOf(f, Resolve(f, path)) # "none"

\* Path::is_dir
is_dir(f, path) == KindOf(f, Resolve(f, path)) \in {"dir", "repo"}

\* path.join(".git").exists()
has_git_marker(f, path) == KindOf(f, Resolve(f, path)) = "repo"

\* PathBuf::join: an absolute argument replaces the base
path_join(base, arg) == IF arg.abs THEN arg.comps ELSE base \o arg.comps

\* Path::strip_prefix(base).is_ok(): a comparison of components
strip_prefix_ok(path, base) ==
    Len(path) >= Len(base) /\ SubSeq(path, 1, Len(base)) = base

\* fs::remove_dir_all: the file system it leaves
remove_dir_all(f, path) ==
    LET top == Resolve(f, path)
    IN  [n \in FsNodes |->
            IF Len(n) >= Len(top) /\ SubSeq(n, 1, Len(top)) = top
            THEN "none" ELSE f[n]]

\* ------------------------------------------------------------ the tree scan
MAX_DEPTH == 3

\* the entries read_dir lists for a directory
Children(f, dir) ==
    SelectSeq(FsOrder, LAMBDA n : Len(n) = Len(dir) + 1
                                  /\ ParentPath(n) = dir /\ f[n] # "none")

RECURSIVE visit_dirs(_, _, _)
RECURSIVE visit_entries(_, _, _)
\* visit_dirs without the return of line 146: a repository is pushed and
\* its entries are visited all the same
visit_dirs_keeps_descending(f, dir, depth) ==
    IF ~is_dir(f, dir) THEN <<>>
    ELSE (IF has_git_marker(f, dir) THEN <<dir>> ELSE <<>>)
         \o (IF depth >= MAX_DEPTH THEN <<>>
             ELSE visit_entries(f, Children(f, dir), depth))

\* delete.rs visit_dirs: the repositories it pushes
visit_dirs(f, dir, depth) ==
    IF ~is_dir(f, dir) THEN <<>>
    ELSE IF has_git_marker(f, dir) THEN <<dir>>
    ELSE IF depth >= MAX_DEPTH THEN <<>>
    ELSE visit_entries(f, Children(f, dir), depth)

\* delete.rs lines 154-160: the for loop over the entries of a directory
visit_entries(f, entries, depth) ==
    IF entries = <<>> THEN <<>>
    ELSE (IF is_dir(f, Head(entries))
          THEN visit_dirs(f, Head(entries), depth + 1) ELSE <<>>)
         \o visit_entries(f, Tail(entries), depth)

\* find_git_repos counting the root as depth 1
find_git_repos_root_at_one(f, root) == visit_dirs(f, root, 1)

\* delete.rs find_git_repos
find_git_repos(f, root) == visit_dirs(f, root, 0)

\* --------------------------------------------------------- safety checks
\* how far local is ahead of upstream: commits reachable from local only
Ahead(local, upstream) ==
    Cardinality((Ancestors(local) \cup {local})
                \ (Ancestors(upstream) \cup {upstream}))

\* has_unpushed_commits reading the behind count of graph_ahead_behind
has_unpushed_commits_behind(hd, local, upstream) ==
    IF hd = "none" THEN FALSE
    ELSE IF hd = "detached" THEN FALSE
    ELSE IF upstream = NoCommit THEN FALSE
    ELSE Ahead(upstream, local) > 0

\* delete.rs has_unpushed_commits on a repository whose HEAD is hd
\* ("none", "detached" or "branch"), with the tips of the branch and of its
\* upstream reference (NoCommit: no upstream)
has_unpushed_commits(hd, local, upstream) ==
    IF hd = "none" THEN FALSE
    ELSE IF hd = "detached" THEN FALSE
    ELSE IF upstream = NoCommit THEN FALSE
    ELSE Ahead(local, upstream) > 0

\* delete.rs has_uncommitted_changes on the outcome of repo.statuses
has_uncommitted_changes(statuses) == statuses = "dirty"

\* ------------------------------------------------------------------ inputs
NoPath == [some |-> FALSE, abs |-> FALSE, comps |-> <<>>]
RelPath(c) == [some |-> TRUE, abs |-> FALSE, comps |-> c]
AbsPath(c) == [some |-> TRUE, abs |-> TRUE, comps |-> c]

\* the repo_path arguments tried
PathArgs == {NoPath, RelPath(<<"a">>), RelPath(<<"a", "b", "c">>), RelPath(<<"e">>),
             RelPath(<<"zz">>), RelPath(<<"..", "out">>), AbsPath(<<"out">>)}

RdArgs == [repo_path : PathArgs, interactive : BOOLEAN, force : BOOLEAN,
           dry_run : BOOLEAN]

NoArgs == [repo_path |-> NoPath, interactive |-> FALSE, force |-> FALSE,
           dry_run |-> FALSE]
NoStatus == [dirty |-> FALSE, unpushed |-> FALSE]

\* what the two safety checks can return for the repository at the target:
\* every outcome of repo.statuses, every HEAD, every pair of tips
RepoStatuses ==
    {[dirty |-> has_uncommitted_changes(statuses),
      unpushed |-> has_unpushed_commits(hd, local, upstream)] :
        statuses \in {"clean", "dirty", "err"},
        hd \in {"none", "detached", "branch"},
        local \in Commits, upstream \in {NoCommit} \cup Commits}

\* ------------------------------------------------------------------- gates
\* the final confirmation asked in a dry run too
GateFinal_always_asks(args) == "rd_ask_final"

\* delete.rs lines 83-92: dry run returns, otherwise the final confirmation
GateFinal(args) == IF args.dry_run THEN "dry" ELSE "rd_ask_final"

\* the unpushed-commits warning without its confirmation
GateUnpushed_never_asks(args, st) == GateFinal(args)

\* delete.rs lines 69-80: the unpushed-commits warning
GateUnpushed(args, st) ==
    IF ~args.force /\ st.unpushed /\ ~args.dry_run
    THEN "rd_ask_unpushed" ELSE GateFinal(args)

\* delete.rs lines 55-67: the uncommitted-changes warning
GateDirty(args, st) ==
    IF ~args.force /\ st.dirty /\ ~args.dry_run
    THEN "rd_ask_dirty" ELSE GateUnpushed(args, st)

\* the warnings printed on the way from the uncommitted-changes check on
WarningsFromDirty(args, st) ==
    (IF ~args.force /\ st.dirty THEN {<<"", "Warning: uncommitted changes">>} ELSE {})
    \cup (IF ~args.force /\ st.unpushed /\ GateDirty(args, st) # "rd_ask_dirty"
          THEN {<<"", "Warning: unpushed commits">>} ELSE {})

\* the warning printed on the way from the unpushed-commits check on
WarningsFromUnpushed(args, st) ==
    IF ~args.force /\ st.unpushed THEN {<<"", "Warning: unpushed commits">>} ELSE {}

\* go on to a prompt, or print the dry-run lines and return
Enter(gate) ==
    IF gate = "dry"
    THEN Exit("ok") /\ stdout' = stdout \cup {Line("Would delete", "", "", 0)}
    ELSE pc' = gate /\ exit' = exit /\ stdout' = stdout

\* delete.rs lines 40-81: from the resolved target to the first prompt;
\* Repository::open fails, or the safety checks run on the opened repository
RdCheck(target, f, args) ==
    /\ target_path' = target
    /\ IF ~strip_prefix_ok(target, RepoRoot)
       THEN /\ Exit("panic")
            /\ UNCHANGED <<rd_status, stdout, stderr>>
       ELSE IF ~has_git_marker(f, target)
       THEN /\ Exit("error")
            /\ stderr' = stderr \cup {<<"", "Not a git repository">>}
            /\ UNCHANGED <<rd_status, stdout>>
       ELSE \/ /\ Exit("error")
               /\ stderr' = stderr \cup {<<"", "Git">>}
               /\ UNCHANGED <<rd_status, stdout>>
            \/ \E st \in RepoStatuses :
               /\ rd_status' = st
               /\ stderr' = stderr \cup WarningsFromDirty(args, st)
               /\ Enter(GateDirty(args, st))

\* what a prompt of delete_repo records
RdPrompt(kind, answer) ==
    [kind |-> kind, branch |-> "", label |-> "", answer |-> answer]

\* ----------------------------------------------------------------- actions
\* delete.rs line 15: git-repo.root is not configured
RdNoRoot ==
    /\ pc = "rd_start"
    /\ Exit("error")
    /\ stderr' = stderr \cup {<<"", "git-repo.root not configured">>}
    /\ UNCHANGED <<rd_args, fs, target_path, rd_status, prompts, stdout>>
    /\ RepoDeleteOnly

\* delete.rs lines 15-81: resolve the target and run the safety checks up to
\* the first prompt
RdStart ==
    /\ pc = "rd_start"
    /\ \E args \in RdArgs, f \in DeleteFsStates :
        /\ rd_args' = args
        /\ fs' = f
        /\ IF ~path_exists(f, RepoRoot)
           THEN /\ Exit("error")
                /\ stderr' = stderr \cup {<<"", "Repository root does not exist">>}
                /\ UNCHANGED <<target_path, rd_status, stdout>>
           ELSE IF args.interactive
           THEN IF find_git_repos(f, RepoRoot) = <<>>
                THEN /\ Exit("error")
                     /\ stderr' = stderr \cup {<<"", "No repositories found">>}
                     /\ UNCHANGED <<target_path, rd_status, stdout>>
                ELSE /\ pc' = "rd_pick"
                     /\ UNCHANGED <<exit, target_path, rd_status, stdout, stderr>>
           ELSE IF args.repo_path.some
           THEN IF ~path_exists(f, path_join(RepoRoot, args.repo_path))
                THEN /\ Exit("error")
                     /\ stderr' = stderr \cup {<<"", "Repository not found">>}
                     /\ UNCHANGED <<target_path, rd_status, stdout>>
                ELSE RdCheck(path_join(RepoRoot, args.repo_path), f, args)
           ELSE /\ Exit("error")
                /\ stderr' = stderr \cup {<<"", "Either specify a repository path or use --interactive">>}
                /\ UNCHANGED <<target_path, rd_status, stdout>>
    /\ prompts' = prompts
    /\ RepoDeleteOnly

\* delete.rs lines 106-128 and 40-81: the Select prompt of
\* select_repo_interactive, then the safety checks up to the first prompt
RdPick ==
    /\ pc = "rd_pick"
    /\ \/ /\ prompts' = prompts \cup {RdPrompt("pick", "cancel")}
          /\ Exit("cancelled")
          /\ UNCHANGED <<target_path, rd_status, stdout, stderr>>
       \/ \E choice \in Range(find_git_repos(fs, RepoRoot)) :
          /\ prompts' = prompts \cup {RdPrompt("pick", "yes")}
          /\ RdCheck(choice, fs, rd_args)
    /\ UNCHANGED <<rd_args, fs>>
    /\ RepoDeleteOnly

\* delete.rs lines 60-81: answer to "Continue anyway?" after the
\* uncommitted-changes warning, then the unpushed-commits check
RdAskDirty ==
    /\ pc = "rd_ask_dirty"
    /\ \E answer \in Answers :
        /\ prompts' = prompts \cup {RdPrompt("uncommitted", answer)}
        /\ CASE answer = "cancel" -> Exit("cancelled") /\ UNCHANGED <<stdout, stderr>>
             [] answer = "no" -> Exit("ok") /\ UNCHANGED <<stdout, stderr>>
             [] answer = "yes" ->
                    /\ stderr' = stderr \cup WarningsFromUnpushed(rd_args, rd_status)
                    /\ Enter(GateUnpushed(rd_args, rd_status))
    /\ UNCHANGED <<rd_args, fs, target_path, rd_status>>
    /\ RepoDeleteOnly

\* delete.rs lines 73-92: answer to "Continue anyway?" after the
\* unpushed-commits warning
RdAskUnpushed ==
    /\ pc = "rd_ask_unpushed"
    /\ \E answer \in Answers :
        /\ prompts' = prompts \cup {RdPrompt("unpushed", answer)}
        /\ CASE answer = "cancel" -> Exit("cancelled") /\ stdout' = stdout
             [] answer = "no" -> Exit("ok") /\ stdout' = stdout
             [] answer = "yes" -> Enter(GateFinal(rd_args))
    /\ UNCHANGED <<rd_args, fs, target_path, rd_status, stderr>>
    /\ RepoDeleteOnly

\* delete.rs lines 90-103: the final confirmation and the removal
RdAskFinal ==
    /\ pc = "rd_ask_final"
    /\ \E answer \in Answers :
        /\ prompts' = prompts \cup {RdPrompt("final", answer)}
        /\ CASE answer = "cancel" ->
                    Exit("cancelled") /\ UNCHANGED <<fs, stdout>>
             [] answer = "no" ->
                    /\ Exit("ok")
                    /\ stdout' = stdout \cup {Line("Cancelled", "", "", 0)}
                    /\ fs' = fs
             [] answer = "yes" ->
                    /\ Exit("ok")
                    /\ fs' = remove_dir_all(fs, target_path)
                    /\ stdout' = stdout \cup {Line("Deleted repository", "", "", 0)}
    /\ UNCHANGED <<rd_args, target_path, rd_status, stderr>>
    /\ RepoDeleteOnly

\* ======================================================= git-repo clone
\* ------------------------------------------------------------------ bounds
\* Largest N for which a directory repo-N may exist before the invocation.
MaxSuffix == 3

\* ------------------------------------------------------------- directories
\* Slot 1 is root/domain/user/repo, slot N >= 2 is root/domain/user/repo-N.
\* The last slot is free in every file system the invocation starts on.
Slots == 1..(MaxSuffix + 1)

\* what sits at a slot before the invocation: nothing, a directory that is
\* not a repository, a repository with a clean working tree, a repository
\* with uncommitted changes, a bare repository
CloneKinds == {"none", "dir", "repo", "dirty", "bare"}

\* what Repository::open can open
Openable == {"repo", "dirty", "bare"}

\* repo.statuses(None) without a match of the `if let Ok` of line 100
repo_statuses_unread(kind) == "err"

\* repo.statuses(None): the entries of a work tree, an error on a bare
\* repository
repo_statuses(kind) ==
    IF kind = "bare" THEN "err"
    ELSE IF kind = "dirty" THEN "dirty"
    ELSE "clean"

CloneFsStates == {d \in [Slots -> CloneKinds] : d[MaxSuffix + 1] = "none"}

NoCloneDirs == [k \in Slots |-> "none"]

\* Path::exists on a slot
slot_exists(dirs, k) == k \in DOMAIN dirs /\ dirs[k] # "none"

\* root/domain/user exists
parent_exists(dirs) == \E k \in DOMAIN dirs : dirs[k] # "none"

CloneArgs == [shallow : BOOLEAN, bare : BOOLEAN, branch : BOOLEAN, tty : BOOLEAN]

NoCloneArgs == [shallow |-> FALSE, bare |-> FALSE, branch |-> FALSE, tty |-> FALSE]

\* outcomes of parse_repo_url on the converted url: Ok(info) or Err
ParseOutcomes == {"ok", "err"}

\* the entries of the Select prompt of lines 25-34, and its cancellation
CollisionChoices == {"skip", "update", "replace", "rename", "cancel"}

\* an operation run on a slot (0: the parent directory)
Op(op, slot) == [op |-> op, slot |-> slot]

\* what the Select prompt records
ClPrompt(answer) == [kind |-> "collision", branch |-> "", label |-> "", answer |-> answer]

\* ----------------------------------------------------------------- helpers
\* the Select prompt shown without a terminal too
collision_gate_always_prompts(tty) == "cl_select"

\* clone.rs lines 31-39: prompt on a terminal, otherwise default to Skip
collision_gate(tty) == IF tty THEN "cl_select" ELSE "skip"

RECURSIVE first_free_suffix(_, _)
\* clone.rs lines 130-141: the loop of clone_with_renamed_dir from suffix on
first_free_suffix(dirs, suffix) ==
    IF ~slot_exists(dirs, suffix) THEN suffix
    ELSE first_free_suffix(dirs, suffix + 1)

\* clone_with_renamed_dir without the existence test of line 137
rename_target_unchecked(dirs) == first_free_suffix(NoCloneDirs, 2)

\* clone.rs lines 130-141: the slot clone_with_renamed_dir clones into
rename_target(dirs) == first_free_suffix(dirs, 2)

\* RepoBuilder::clone leaving what it fetched behind when it fails
builder_clone_keeps_partial(dirs, slot, clone_ok) ==
    [dirs EXCEPT ![slot] = "cloned"]

\* RepoBuilder::clone: the directories it leaves; a failed clone leaves the
\* target as it found it
builder_clone(dirs, slot, clone_ok) ==
    IF clone_ok THEN [dirs EXCEPT ![slot] = "cloned"] ELSE dirs

\* clone.rs lines 61-90 and 143-172: create the parent directories, clone
\* into slot, print; dirs, ops and out are what the caller has done so far
CloneInto(dirs, ops, out, slot, mkdir_ok, clone_ok) ==
    IF ~(mkdir_ok \/ parent_exists(clone_dirs))
    THEN /\ clone_dirs' = dirs
         /\ clone_ops' = Append(ops, Op("create_dir_all", 0))
         /\ stdout' = out
         /\ stderr' = stderr \cup {<<"", "Io">>}
         /\ Exit("error")
    ELSE /\ clone_dirs' = builder_clone(dirs, slot, clone_ok)
         /\ clone_ops' = ops \o <<Op("create_dir_all", 0), Op("clone", slot)>>
         /\ IF clone_ok
            THEN /\ stdout' = out \cup {Line("Cloning", "", "", slot),
                                       Line("Successfully cloned", "", "", slot)}
                 /\ stderr' = stderr
                 /\ Exit("ok")
            ELSE /\ stdout' = out \cup {Line("Cloning", "", "", slot)}
                 /\ stderr' = stderr \cup {<<"", "Git">>}
                 /\ Exit("error")

\* clone.rs lines 93-119: update_repo on the existing target
UpdateRepo(out, statuses, pull_ok) ==
    LET said == out \cup {Line("Updating repository...", "", "", 0)}
    IN  IF clone_dirs[1] \notin Openable
        THEN /\ Exit("error")
             /\ stdout' = said
             /\ stderr' = stderr \cup {<<"", "Git">>}
             /\ UNCHANGED <<clone_dirs, clone_ops>>
        ELSE IF statuses = "dirty"
        THEN /\ Exit("error")
             /\ stdout' = said
             /\ stderr' = stderr \cup {<<"", "Cannot update: repository has uncommitted changes">>}
             /\ UNCHANGED <<clone_dirs, clone_ops>>
        ELSE /\ clone_ops' = Append(clone_ops, Op("pull", 1))
             /\ IF pull_ok
                THEN /\ Exit("ok")
                     /\ clone_dirs' = [clone_dirs EXCEPT ![1] = "pulled"]
                     /\ stdout' = said \cup {Line("Successfully updated", "", "", 0)}
                     /\ stderr' = stderr
                ELSE /\ Exit("error")
                     /\ clone_dirs' = clone_dirs
                     /\ stdout' = said
                     /\ stderr' = stderr \cup {<<"", "Failed to pull">>}

\* ----------------------------------------------------------------- actions
\* clone.rs line 11: git-repo.root is not configured
ClNoRoot ==
    /\ pc = "cl_start"
    /\ Exit("error")
    /\ stderr' = stderr \cup {<<"", "git-repo.root not configured">>}
    /\ UNCHANGED <<clone_dirs, clone_ops, prompts, stdout>>
    /\ CloneOnly

\* clone.rs lines 11-39 and 61-90: parse the url, look at the target; clone
\* when it is free, skip without a terminal, otherwise go on to the prompt
ClStart ==
    /\ pc = "cl_start"
    /\ \E parsed \in ParseOutcomes, mkdir_ok \in BOOLEAN, clone_ok \in BOOLEAN :
        IF parsed = "err"
        THEN /\ Exit("error")
             /\ stderr' = stderr \cup {<<"", "Invalid repository URL">>}
             /\ UNCHANGED <<clone_dirs, clone_ops, stdout>>
        ELSE IF ~slot_exists(clone_dirs, 1)
        THEN CloneInto(clone_dirs, clone_ops, stdout, 1, mkdir_ok, clone_ok)
        ELSE IF collision_gate(clone_args.tty) = "skip"
        THEN /\ Exit("ok")
             /\ stdout' = stdout \cup {Line("Directory already exists", "", "", 0),
                                      Line("Non-interactive mode: skipping", "", "", 0),
                                      Line("Skipped", "", "", 0)}
             /\ UNCHANGED <<clone_dirs, clone_ops, stderr>>
        ELSE /\ pc' = "cl_select"
             /\ exit' = exit
             /\ stdout' = stdout \cup {Line("Directory already exists", "", "", 0)}
             /\ UNCHANGED <<clone_dirs, clone_ops, stderr>>
    /\ prompts' = prompts
    /\ CloneOnly

\* clone.rs lines 32-58: the answer to the Select prompt and what it starts:
\* skip, update_repo, remove and clone, or clone_with_renamed_dir
ClSelect ==
    /\ pc = "cl_select"
    /\ \E choice \in CollisionChoices, ok1 \in BOOLEAN, ok2 \in BOOLEAN :
        /\ prompts' = prompts \cup {ClPrompt(choice)}
        /\ CASE choice = "cancel" ->
                    /\ Exit("cancelled")
                    /\ UNCHANGED <<clone_dirs, clone_ops, stdout, stderr>>
             [] choice = "skip" ->
                    /\ Exit("ok")
                    /\ stdout' = stdout \cup {Line("Skipped", "", "", 0)}
                    /\ UNCHANGED <<clone_dirs, clone_ops, stderr>>
             [] choice = "update" -> UpdateRepo(stdout, repo_statuses(clone_dirs[1]), ok1)
             [] choice = "replace" ->
                    LET said == stdout \cup {Line("Removing existing directory...", "", "", 0)}
                    IN  IF ~ok1
                        THEN /\ Exit("error")
                             /\ stdout' = said
                             /\ stderr' = stderr \cup {<<"", "Io">>}
                             /\ clone_ops' = Append(clone_ops, Op("remove_dir_all", 1))
                             /\ clone_dirs' = clone_dirs
                        ELSE CloneInto([clone_dirs EXCEPT ![1] = "none"],
                                       Append(clone_ops, Op("remove_dir_all", 1)),
                                       said, 1, TRUE, ok2)
             [] choice = "rename" ->
                    CloneInto(clone_dirs, clone_ops, stdout,
                              rename_target(clone_dirs), TRUE, ok2)
    /\ CloneOnly

\* ========================================================= git-pr-merged
\* ------------------------------------------------------------------ bounds
\* Largest pull-request number found in the log of the revision range.
MaxPr == 3

\* ------------------------------------------------------------------ inputs
\* --web and the OutputFormat of --format
PmCliSpace == [web : BOOLEAN, format : {"text", "json", "markdown", "plain"}]

NoPmCli == [web |-> FALSE, format |-> "text"]

\* extract_pr_numbers: the numbers of the log, each once, in log order
PrNumberSeqs ==
    {q \in UNION {[1..n -> 1..MaxPr] : n \in 0..MaxPr} :
        \A i \in 1..Len(q), j \in 1..Len(q) : i # j => q[i] # q[j]}

\* what stops main before the numbers are known: Repository::discover,
\* is_gh_available, get_repo_info, extract_pr_numbers
SetupOutcomes == {"ok", "Not a git repository", "gh command not found",
                  "Not a GitHub repository", "Invalid revision range"}

\* one run of `gh pr view`: exit status zero with a JSON document, exit
\* status non-zero, the process cannot be started, exit status zero with
\* output that is not JSON
GhOutcomes == {"success", "failure", "spawn_err", "bad_json"}

\* the lines print_text, print_json and print_markdown write for the pulls
OutputLines(format, fetched) ==
    {Line(format, "", "", fetched[i]) : i \in 1..Len(fetched)}
    \cup (IF format \in {"json", "markdown"} THEN {Line(format, "", "header", 0)} ELSE {})

\* a step of git-pr-merged leaves everything else alone
PrMergedOnly ==
    UNCHANGED <<cli, opened, refs, head, configBase, current_branch, base_branch,
                branches, branches_to_delete, idx, deleted_count,
                remote_deleted_count, prompts, pushed, call, ret, rd_args, fs,
                target_path, rd_status, clone_args, clone_dirs, clone_ops>>

\* ----------------------------------------------------------------- actions
\* main lines 59-97: the setup, the empty range, the --web shortcut
PmStart ==
    /\ pc = "pm_start"
    /\ \E c \in PmCliSpace, setup \in SetupOutcomes, numbers \in PrNumberSeqs,
          browser_ok \in BOOLEAN :
        /\ pm_cli' = c
        /\ IF setup # "ok"
           THEN /\ Exit("error")
                /\ stderr' = stderr \cup {<<"", setup>>}
                /\ UNCHANGED <<pr_numbers, stdout>>
           ELSE /\ pr_numbers' = numbers
                /\ IF numbers = <<>>
                   THEN /\ Exit("ok")
                        /\ stdout' = stdout \cup {Line("No merged pull requests found", "", "", 0)}
                        /\ stderr' = stderr
                   ELSE IF c.web
                   THEN IF browser_ok
                        THEN /\ Exit("ok")
                             /\ stdout' = stdout \cup {Line("Opened in browser", "", "", 0)}
                             /\ stderr' = stderr
                        ELSE /\ Exit("error")
                             /\ stderr' = stderr \cup {<<"", "Failed to open browser">>}
                             /\ stdout' = stdout
                   ELSE /\ pc' = "pm_fetch"
                        /\ UNCHANGED <<exit, stdout, stderr>>
    /\ pr_idx' = 1
    /\ pulls' = <<>>
    /\ PrMergedOnly

\* fetch_pr_details lines 205-230: one turn of the loop, one run of gh
PmFetch ==
    /\ pc = "pm_fetch"
    /\ pr_idx <= Len(pr_numbers)
    /\ \E out \in GhOutcomes :
        CASE out = "success" ->
                /\ pulls' = Append(pulls, pr_numbers[pr_idx])
                /\ pr_idx' = pr_idx + 1
                /\ UNCHANGED <<pc, exit, stderr>>
          [] out = "failure" ->
                /\ pr_idx' = pr_idx + 1
                /\ UNCHANGED <<pc, exit, stderr, pulls>>
          [] out = "spawn_err" ->
                /\ Exit("error")
                /\ stderr' = stderr \cup {<<"", "Failed to run gh command">>}
                /\ UNCHANGED <<pr_idx, pulls>>
          [] out = "bad_json" ->
                /\ Exit("error")
                /\ stderr' = stderr \cup {<<"", "Json">>}
                /\ UNCHANGED <<pr_idx, pulls>>
    /\ UNCHANGED <<pm_cli, pr_numbers, stdout>>
    /\ PrMergedOnly

\* main lines 100-116: the loop is over, print what was fetched
PmOutput ==
    /\ pc = "pm_fetch"
    /\ pr_idx > Len(pr_numbers)
    /\ Exit("ok")
    /\ stdout' = stdout \cup OutputLines(pm_cli.format, pulls)
    /\ UNCHANGED <<pm_cli, pr_numbers, pr_idx, pulls, stderr>>
    /\ PrMergedOnly

\* ----------------------------------------------------------- specification
\* the process has started and has read nothing yet
Fresh ==
    /\ exit = "running"
    /\ cli = NoCli
    /\ opened = FALSE
    /\ refs = NoRefs
    /\ head = Detached
    /\ configBase = NoConfig
    /\ current_branch = ""
    /\ base_branch = ""
    /\ branches = <<>>
    /\ branches_to_delete = <<>>
    /\ idx = 1
    /\ deleted_count = 0
    /\ remote_deleted_count = 0
    /\ prompts = {}
    /\ pushed = {}
    /\ stdout = {}
    /\ stderr = {}
    /\ call = NoCall
    /\ ret = OkUnit
    /\ rd_args = NoArgs
    /\ fs = NoFs
    /\ target_path = <<>>
    /\ rd_status = NoStatus
    /\ clone_args = NoCloneArgs
    /\ clone_dirs = NoCloneDirs
    /\ clone_ops = <<>>
    /\ pm_cli = NoPmCli
    /\ pr_numbers = <<>>
    /\ pr_idx = 1
    /\ pulls = <<>>

\* an invocation of git-branch-delete
InitBranchDelete == pc = "parse" /\ Fresh

NextBranchDelete ==
    \/ Parse
    \/ OpenRepoFails
    \/ OpenRepo
    \/ Filter
    \/ SelectPrompt
    \/ ConfirmBatch
    \/ DeleteLocal
    \/ RemotePrompt
    \/ Report

SpecBranchDelete == InitBranchDelete /\ [][NextBranchDelete]_vars

\* an invocation of git-repo delete
InitRepoDelete == pc = "rd_start" /\ Fresh

NextRepoDelete ==
    \/ RdNoRoot
    \/ RdStart
    \/ RdPick
    \/ RdAskDirty
    \/ RdAskUnpushed
    \/ RdAskFinal

SpecRepoDelete == InitRepoDelete /\ [][NextRepoDelete]_vars

\* an invocation of git-repo clone with any arguments and any set of
\* directories already below root/domain/user
InitClone ==
    /\ pc = "cl_start"
    /\ exit = "running"
    /\ cli = NoCli
    /\ opened = FALSE
    /\ refs = NoRefs
    /\ head = Detached
    /\ configBase = NoConfig
    /\ current_branch = ""
    /\ base_branch = ""
    /\ branches = <<>>
    /\ branches_to_delete = <<>>
    /\ idx = 1
    /\ deleted_count = 0
    /\ remote_deleted_count = 0
    /\ prompts = {}
    /\ pushed = {}
    /\ stdout = {}
    /\ stderr = {}
    /\ call = NoCall
    /\ ret = OkUnit
    /\ rd_args = NoArgs
    /\ fs = NoFs
    /\ target_path = <<>>
    /\ rd_status = NoStatus
    /\ clone_args \in CloneArgs
    /\ clone_dirs \in CloneFsStates
    /\ clone_ops = <<>>
    /\ pm_cli = NoPmCli
    /\ pr_numbers = <<>>
    /\ pr_idx = 1
    /\ pulls = <<>>

NextClone ==
    \/ ClNoRoot
    \/ ClStart
    \/ ClSelect

SpecClone == InitClone /\ [][NextClone]_vars

\* an invocation of git-pr-merged
InitPrMerged == pc = "pm_start" /\ Fresh

NextPrMerged ==
    \/ PmStart
    \/ PmFetch
    \/ PmOutput

SpecPrMerged == InitPrMerged /\ [][NextPrMerged]_vars

\* an invocation of either tool
Init == InitBranchDelete \/ InitRepoDelete

Next == NextBranchDelete \/ NextRepoDelete

Spec == Init /\ [][Next]_vars

\* ================================================== RepoInfo URL parser
\* A url is a sequence of tokens: the separators "@", ":", "/", the scheme
\* "https://", the suffix ".git", and names that hold none of these.
\* ------------------------------------------------------------------ bounds
\* Largest number of path segments of a url.
MaxSegments == 3

\* ----------------------------------------------------------------- strings
RECURSIVE Split(_, _)
\* str::split(sep): the pieces between the separators, empty pieces kept
Split(str, sep) ==
    IF str = <<>> THEN << <<>> >>
    ELSE LET rest == Split(Tail(str), sep)
         IN  IF Head(str) = sep THEN << <<>> >> \o rest
             ELSE << <<Head(str)>> \o rest[1] >> \o Tail(rest)

RECURSIVE trim_end_matches(_, _)
\* str::trim_end_matches(tok): every trailing repetition of tok removed
trim_end_matches(str, tok) ==
    IF str # <<>> /\ str[Len(str)] = tok
    THEN trim_end_matches(SubSeq(str, 1, Len(str) - 1), tok)
    ELSE str

RECURSIVE trim_start_matches(_, _)
\* str::trim_start_matches(tok): every leading repetition of tok removed
trim_start_matches(str, tok) ==
    IF str # <<>> /\ Head(str) = tok THEN trim_start_matches(Tail(str), tok)
    ELSE str

\* url_str.starts_with("git@")
starts_with_git_at(str) == Len(str) >= 2 /\ str[1] = "git" /\ str[2] = "@"

RECURSIVE trim_start_git_at(_)
\* parts[0].trim_start_matches("git@")
trim_start_git_at(str) ==
    IF starts_with_git_at(str) THEN trim_start_git_at(SubSeq(str, 3, Len(str)))
    ELSE str

\* the url crate writes the host of an https url in lower case
to_lowercase(tok) == IF tok = "H" THEN "h" ELSE tok

\* Url::parse on a url of the tokens above: a url without a scheme is
\* refused, the authority runs to the first "/", the host is what follows
\* the user info and precedes the port
UrlParse(str) ==
    IF str = <<>> \/ Head(str) # "https://" THEN [ok |-> FALSE, host |-> <<>>, path |-> <<>>]
    ELSE LET rest == Tail(str)
             authority == Split(rest, "/")[1]
             after_user == LET pieces == Split(authority, "@") IN pieces[Len(pieces)]
             host == Split(after_user, ":")[1]
             path == SubSeq(rest, Len(authority) + 1, Len(rest))
         IN  IF host = <<>> THEN [ok |-> FALSE, host |-> <<>>, path |-> <<>>]
             ELSE [ok |-> TRUE,
                   host |-> [i \in 1..Len(host) |-> to_lowercase(host[i])],
                   path |-> IF path = <<>> THEN <<"/">> ELSE path]

\* an Ok(RepoInfo)
OkInfo(domain, user, repo) ==
    [ok |-> TRUE, val |-> FALSE, name |-> "", err |-> "",
     info |-> [domain |-> domain, user |-> user, repo |-> repo]]

\* utils.rs parse_repo_url
parse_repo_url(url_str) ==
    IF starts_with_git_at(url_str)
    THEN LET parts == Split(url_str, ":")
         IN  IF Len(parts) # 2 THEN Err("Invalid SSH URL format")
             ELSE LET domain == trim_start_git_at(parts[1])
                      path == trim_end_matches(parts[2], ".git")
                      path_parts == Split(path, "/")
                  IN  IF Len(path_parts) < 2 THEN Err("Invalid repository path")
                      ELSE OkInfo(domain, path_parts[1], path_parts[2])
    ELSE LET url == UrlParse(url_str)
         IN  IF ~url.ok THEN Err("Url")
             ELSE LET path == trim_end_matches(trim_start_matches(url.path, "/"), ".git")
                      parts == Split(path, "/")
                  IN  IF Len(parts) < 2 THEN Err("Invalid repository path")
                      ELSE OkInfo(url.host, parts[1], parts[2])

\* ------------------------------------------------------------------ inputs
\* the paths tried; a segment is a name, or nothing between two slashes
SegmentSeqs == UNION {[1..n -> {"", "o", "r"}] : n \in 0..MaxSegments}

RECURSIVE JoinPath(_)
\* the segments written with "/" between them
JoinPath(segs) ==
    IF segs = <<>> THEN <<>>
    ELSE (IF Head(segs) = "" THEN <<>> ELSE <<Head(segs)>>)
         \o (IF Len(segs) > 1 THEN <<"/">> \o JoinPath(Tail(segs)) ELSE <<>>)

DotGit(dotgit) == IF dotgit THEN <<".git">> ELSE <<>>

\* user@host:path/to/repo[.git], and the same without its path half
SshUrl(user, host, segs, dotgit) ==
    <<user, "@", host, ":">> \o JoinPath(segs) \o DotGit(dotgit)
SshUrlNoColon(user, host) == <<user, "@", host>>

\* https://host/path/to/repo[.git]
HttpsUrl(host, segs, dotgit) ==
    <<"https://", host, "/">> \o JoinPath(segs) \o DotGit(dotgit)

\* the url a call names
UrlOf(c) ==
    IF c.form = "ssh" THEN SshUrl(c.user, c.host, c.segs, c.dotgit)
    ELSE IF c.form = "ssh_nocolon" THEN SshUrlNoColon(c.user, c.host)
    ELSE HttpsUrl(c.host, c.segs, c.dotgit)

\* ============================================================ HEAD reflog
\* ------------------------------------------------------------------ bounds
\* Largest number of entries of the reflog of HEAD.
MaxReflog == 3

\* A reflog message is the sequence of its words; NoMessage is an entry whose
\* message is not valid UTF-8.
NoMessage == <<>>

\* "checkout: moving from X to Y"
CheckoutMessage(from, to) == <<"checkout:", "moving", "from", from, "to", to>>

\* the reflogs of HEAD, most recent entry first; the messages of the entries
\* tried: checkouts between two branches, a commit whose subject ends in a
\* branch name, an unreadable message
Reflogs ==
    LET messages ==
            {CheckoutMessage(from, to) : from \in {"main", "x"}, to \in {"main", "x"}}
            \cup {<<"commit:", "merge", "to", "x">>, NoMessage}
    IN  UNION {[1..n -> messages] : n \in 0..MaxReflog}

\* an Ok(Vec<String>)
OkNames(l) == [ok |-> TRUE, val |-> FALSE, name |-> "", err |-> "", names |-> l]

\* every readable message taken for a checkout
is_checkout_move_any_message(msg) == msg # NoMessage

\* entry.message() is Some(msg) and msg.starts_with("checkout: moving from")
is_checkout_move(msg) ==
    /\ Len(msg) >= 3
    /\ SubSeq(msg, 1, 3) = <<"checkout:", "moving", "from">>

\* msg.split_whitespace().last()
last_word(msg) == msg[Len(msg)]

RECURSIVE recent_branches_from(_, _, _, _)
\* git.rs lines 132-144: the for loop from entry i on
recent_branches_from(reflog, i, seen, found) ==
    IF i > Len(reflog) THEN found
    ELSE IF is_checkout_move(reflog[i]) /\ last_word(reflog[i]) \notin seen
    THEN recent_branches_from(reflog, i + 1, seen \cup {last_word(reflog[i])},
                              Append(found, last_word(reflog[i])))
    ELSE recent_branches_from(reflog, i + 1, seen, found)

\* git.rs get_recent_branches
get_recent_branches(reflog) == OkNames(recent_branches_from(reflog, 1, {}, <<>>))

\* --------------------------------------------- primitives called on their own
\* the calls of is_branch_merged(repo, branch, base) on any repository
MergedCalls == [fn : {"is_branch_merged"}, branch : BranchNames, base : BranchNames]

\* the repositories detect_base_branch is called on: any of its three
\* candidates may or may not be a local branch
BaseRepoRefs == [{"main", "master", "develop"} -> {NoCommit, 1}]

\* values of the configuration key git-branch-delete.base
BaseConfigValues == {NoConfig, "develop", "trunk"}

BaseCalls == [fn : {"detect_base_branch"}, branch : {""}, base : {""}]

\* a scan of the tree below the configured root
ScanCalls == [fn : {"find_git_repos"}, branch : {""}, base : {""}]

\* what repo.head() finds: an error, a detached HEAD, a branch
HeadKinds == {"none", "detached", "branch"}

\* has_unpushed_commits on a repository: its HEAD, the tip of its branch and
\* the tip of refs/remotes/origin/<branch> (NoCommit: no such reference)
UnpushedCalls == [fn : {"has_unpushed_commits"}, branch : {""}, base : {""},
                  hd : HeadKinds, local : Commits, upstream : Commits \cup {NoCommit}]

\* parse_repo_url on the urls of both forms
ParseCalls ==
    [fn : {"parse_repo_url"}, branch : {""}, base : {""},
     form : {"ssh", "ssh_nocolon"}, user : {"git", "alice"}, host : {"h", "H"},
     segs : SegmentSeqs, dotgit : BOOLEAN]
    \cup [fn : {"parse_repo_url"}, branch : {""}, base : {""},
          form : {"https"}, user : {"git"}, host : {"h", "H"},
          segs : SegmentSeqs, dotgit : BOOLEAN]

\* get_recent_branches on a repository with any reflog of HEAD
RecentCalls == [fn : {"get_recent_branches"}, branch : {""}, base : {""},
                reflog : Reflogs]

\* a repository and a call of a primitive on it
InitCall ==
    /\ pc = "call"
    /\ exit = "running"
    /\ cli = NoCli
    /\ opened = TRUE
    /\ head = Detached
    /\ current_branch = ""
    /\ base_branch = ""
    /\ branches = <<>>
    /\ branches_to_delete = <<>>
    /\ idx = 1
    /\ deleted_count = 0
    /\ remote_deleted_count = 0
    /\ prompts = {}
    /\ pushed = {}
    /\ stdout = {}
    /\ stderr = {}
    /\ ret = OkUnit
    /\ rd_args = NoArgs
    /\ target_path = <<>>
    /\ rd_status = NoStatus
    /\ clone_args = NoCloneArgs
    /\ clone_dirs = NoCloneDirs
    /\ clone_ops = <<>>
    /\ pm_cli = NoPmCli
    /\ pr_numbers = <<>>
    /\ pr_idx = 1
    /\ pulls = <<>>
    /\ \/ /\ call \in MergedCalls
          /\ refs \in RepoRefs
          /\ configBase = NoConfig
          /\ fs = NoFs
       \/ /\ call \in BaseCalls
          /\ refs \in BaseRepoRefs
          /\ configBase \in BaseConfigValues
          /\ fs = NoFs
       \/ /\ call \in ScanCalls
          /\ refs = NoRefs
          /\ configBase = NoConfig
          /\ fs \in FsStates
       \/ /\ call \in UnpushedCalls
          /\ refs = NoRefs
          /\ configBase = NoConfig
          /\ fs = NoFs
       \/ /\ call \in ParseCalls
          /\ refs = NoRefs
          /\ configBase = NoConfig
          /\ fs = NoFs
       \/ /\ call \in RecentCalls
          /\ refs = NoRefs
          /\ configBase = NoConfig
          /\ fs = NoFs

\* git.rs lines 36-44: is_branch_merged returns
CallIsBranchMerged ==
    /\ pc = "call"
    /\ call.fn = "is_branch_merged"
    /\ ret' = is_branch_merged(refs, call.branch, call.base)
    /\ pc' = "returned"
    /\ UNCHANGED <<exit, cli, opened, refs, head, configBase, current_branch,
                   base_branch, branches, branches_to_delete, idx, deleted_count,
                   remote_deleted_count, prompts, pushed, stdout, stderr, call,
                   rd_args, fs, target_path, rd_status, clone_args, clone_dirs,
                   clone_ops, prVars>>

\* git.rs lines 47-63: detect_base_branch returns
CallDetectBaseBranch ==
    /\ pc = "call"
    /\ call.fn = "detect_base_branch"
    /\ ret' = detect_base_branch(refs, configBase)
    /\ pc' = "returned"
    /\ UNCHANGED <<exit, cli, opened, refs, head, configBase, current_branch,
                   base_branch, branches, branches_to_delete, idx, deleted_count,
                   remote_deleted_count, prompts, pushed, stdout, stderr, call,
                   rd_args, fs, target_path, rd_status, clone_args, clone_dirs,
                   clone_ops, prVars>>

\* delete.rs lines 130-167 (ls.rs lines 104-146): find_git_repos returns
CallFindGitRepos ==
    /\ pc = "call"
    /\ call.fn = "find_git_repos"
    /\ ret' = OkPaths(find_git_repos(fs, RepoRoot))
    /\ pc' = "returned"
    /\ UNCHANGED <<exit, cli, opened, refs, head, configBase, current_branch,
                   base_branch, branches, branches_to_delete, idx, deleted_count,
                   remote_deleted_count, prompts, pushed, stdout, stderr, call,
                   rd_args, fs, target_path, rd_status, clone_args, clone_dirs,
                   clone_ops, prVars>>

\* delete.rs lines 177-204: has_unpushed_commits returns
CallHasUnpushedCommits ==
    /\ pc = "call"
    /\ call.fn = "has_unpushed_commits"
    /\ ret' = OkBool(has_unpushed_commits(call.hd, call.local, call.upstream))
    /\ pc' = "returned"
    /\ UNCHANGED <<exit, cli, opened, refs, head, configBase, current_branch,
                   base_branch, branches, branches_to_delete, idx, deleted_count,
                   remote_deleted_count, prompts, pushed, stdout, stderr, call,
                   rd_args, fs, target_path, rd_status, clone_args, clone_dirs,
                   clone_ops, prVars>>

\* utils.rs lines 35-74: parse_repo_url returns
CallParseRepoUrl ==
    /\ pc = "call"
    /\ call.fn = "parse_repo_url"
    /\ ret' = parse_repo_url(UrlOf(call))
    /\ pc' = "returned"
    /\ UNCHANGED <<exit, cli, opened, refs, head, configBase, current_branch,
                   base_branch, branches, branches_to_delete, idx, deleted_count,
                   remote_deleted_count, prompts, pushed, stdout, stderr, call,
                   rd_args, fs, target_path, rd_status, clone_args, clone_dirs,
                   clone_ops, prVars>>

\* git.rs lines 126-147: get_recent_branches returns
CallGetRecentBranches ==
    /\ pc = "call"
    /\ call.fn = "get_recent_branches"
    /\ ret' = get_recent_branches(call.reflog)
    /\ pc' = "returned"
    /\ UNCHANGED <<exit, cli, opened, refs, head, configBase, current_branch,
                   base_branch, branches, branches_to_delete, idx, deleted_count,
                   remote_deleted_count, prompts, pushed, stdout, stderr, call,
                   rd_args, fs, target_path, rd_status, clone_args, clone_dirs,
                   clone_ops, prVars>>

NextCall ==
    \/ CallIsBranchMerged
    \/ CallDetectBaseBranch
    \/ CallFindGitRepos
    \/ CallHasUnpushedCommits
    \/ CallParseRepoUrl
    \/ CallGetRecentBranches

SpecCall == InitCall /\ [][NextCall]_vars

\* ================================================================== claims
\* the local branches of a repository
LocalBranches(rf) == {b \in BranchNames : rf[b] # NoCommit}

\* the branches a step removes
Removed == {b \in BranchNames : refs[b] # NoCommit /\ refs'[b] = NoCommit}

\* a call of is_branch_merged on two existing branches has returned
MergedReturned ==
    /\ pc = "returned"
    /\ call.fn = "is_branch_merged"
    /\ find_branch_ok(refs, call.branch)
    /\ find_branch_ok(refs, call.base)

\* C1 as stated: is_branch_merged(branch, base) is true exactly when the tip
\* of base is an ancestor of, or identical to, the tip of branch.
C1_TrueIffBaseTipReachableFromBranchTip ==
    MergedReturned =>
        /\ ret.ok
        /\ ret.val <=> Reachable(refs[call.base], refs[call.branch])

\* C1 amended: is_branch_merged(branch, base) is true exactly when the tip of
\* branch is a proper ancestor of the tip of base; it is false when both tips
\* are the same commit, when the tips are unrelated, and when the tip of base
\* is a proper ancestor of the tip of branch.
C1_TrueIffBranchTipProperAncestorOfBaseTip ==
    MergedReturned =>
        LET b == refs[call.branch]
            a == refs[call.base]
        IN  /\ ret.ok
            /\ (Reachable(b, a) /\ b # a) => ret.val
            /\ b = a => ~ret.val
            /\ Unrelated(a, b) => ~ret.val
            /\ (Reachable(a, b) /\ a # b) => ~ret.val

\* C1 witness: a call returned true for a branch whose tip lies behind base
C1_Witness ==
    /\ MergedReturned
    /\ ret.val
    /\ refs[call.branch] \in Ancestors(refs[call.base])

\* C2: without force a branch that is not merged into the base is not deleted
\* (the delete fails and is reported), and every branch a non-force
\* invocation removes has its tip reachable from the tip of the base branch
\* at the moment it is removed.
C2_NonForceDeletesOnlyLandedBranches ==
    [][~cli.force =>
        /\ \A b \in Removed :
              /\ find_branch_ok(refs, base_branch)
              /\ Reachable(refs[b], refs[base_branch])
        /\ (pc = "delete" /\ idx <= Len(branches_to_delete)) =>
              LET b == branches_to_delete[idx]
              IN  (~find_branch_ok(refs, base_branch)
                      \/ refs[b] \notin Ancestors(refs[base_branch]))
                  => /\ refs'[b] = refs[b]
                     /\ \E e \in stderr' : e[1] = b
                     /\ deleted_count' = deleted_count
      ]_vars

\* C2 witness: a non-force run deleted one branch and refused an unmerged one
C2_Witness ==
    /\ ~cli.force
    /\ deleted_count >= 1
    /\ \E b \in BranchNames : <<b, "not merged">> \in stderr /\ refs[b] # NoCommit

\* C3: the candidates are all local branches minus the current and the base
\* branch, and no step of any mode ever deletes the current or the base
\* branch.
C3_CurrentAndBaseNeverDeleted ==
    [][/\ pc = "filter" =>
            Range(branches) = LocalBranches(refs) \ {current_branch, base_branch}
       /\ \A b \in Removed : b # current_branch /\ b # base_branch
      ]_vars

\* C3 witness: a forced run over all branches deleted a branch while the
\* current and the base branch are two different existing branches
C3_Witness ==
    /\ cli.all /\ cli.force
    /\ deleted_count >= 1
    /\ pc = "exit"
    /\ current_branch # base_branch
    /\ find_branch_ok(refs, current_branch)
    /\ find_branch_ok(refs, base_branch)

\* the prompts of the given kinds that name branch b and got the answer yes
ConfirmedIn(ps, kinds, b) ==
    \E q \in ps : q.kind \in kinds /\ q.branch = b /\ q.answer = "yes"

\* the prompts of the given kinds that name branch b and were not answered yes
RefusedIn(ps, kinds, b) ==
    \E q \in ps : q.kind \in kinds /\ q.branch = b /\ q.answer # "yes"

\* the branches `git push origin --delete` is run for in a step
Pushed == pushed' \ pushed

\* a step removes entries of the file system the invocation has read
RemovesEntries == pc # "rd_start" /\ fs' # fs

\* C4: a local branch is deleted, a remote branch is deleted and a repository
\* directory is removed only after the confirmation that guards it was
\* answered yes in this invocation; a declined confirmation never leads to
\* the operation; a cancelled prompt ends the invocation and nothing is
\* deleted in or after the step that cancels.
C4_DestructionOnlyAfterConfirmation ==
    [][/\ \A b \in Removed :
             /\ ConfirmedIn(prompts, {"select", "batch"}, b)
             /\ ~RefusedIn(prompts, {"select", "batch"}, b)
       /\ \A b \in Pushed :
             /\ ConfirmedIn(prompts', {"remote"}, b)
             /\ ~RefusedIn(prompts', {"remote"}, b)
       /\ RemovesEntries =>
             /\ RdPrompt("final", "yes") \in prompts'
             /\ \A q \in prompts' : q.answer = "yes"
       /\ (\E q \in prompts' : q.answer = "cancel") =>
             /\ pc' = "exit" /\ exit' = "cancelled"
             /\ ~(ENABLED Next)'
             /\ refs' = refs /\ pushed' = pushed /\ fs' = fs
      ]_vars

\* C4 witness: a repository directory was removed after both warnings and
\* the final confirmation were answered yes
C4_Witness ==
    /\ pc = "exit"
    /\ Line("Deleted repository", "", "", 0) \in stdout
    /\ RdPrompt("uncommitted", "yes") \in prompts
    /\ RdPrompt("unpushed", "yes") \in prompts
    /\ KindOf(fs, Resolve(fs, target_path)) = "none"

\* the run reached the final report of git-branch-delete
Reported ==
    /\ pc = "exit"
    /\ exit = "ok"
    /\ \E l \in stdout : l[1] = "Deleted local branches"

\* C5 as stated: the final report shows the number of deleted branches and
\* the number of failed or skipped ones.
C5_ReportShowsDeletedAndSkipped ==
    Reported =>
        /\ Line("Deleted local branches", "", "", deleted_count) \in stdout
        /\ \E l \in stdout :
              /\ l[1] \notin {"Deleted local branches", "Deleted remote branches"}
              /\ l[4] = Len(branches_to_delete) - deleted_count
              /\ l[4] > 0 \/ Len(branches_to_delete) = deleted_count

\* C5 amended: a failed delete of a branch is reported on its own and the
\* loop goes on with the next branch; only successes are counted; when the
\* loop ends the report gives the number of branches actually deleted, no
\* count of failures, and the invocation exits zero.
C5_FailedDeleteIsNotFatalOnlySuccessesCounted ==
    [][/\ (pc = "delete" /\ idx <= Len(branches_to_delete)
               /\ refs'[branches_to_delete[idx]] # NoCommit) =>
             /\ pc' = "delete" /\ exit' = "running"
             /\ idx' = idx + 1
             /\ deleted_count' = deleted_count
             /\ \E e \in stderr' : e[1] = branches_to_delete[idx]
       /\ (pc = "delete" /\ idx > Len(branches_to_delete)) =>
             /\ pc' = "exit" /\ exit' = "ok"
             /\ \A l \in stdout' \ stdout :
                   \/ l = Line("Deleted local branches", "", "", Cardinality(
                            {b \in Range(branches_to_delete) : refs[b] = NoCommit}))
                   \/ l = Line("Deleted remote branches", "", "", remote_deleted_count)
             /\ \E l \in stdout' \ stdout : l[1] = "Deleted local branches"
       /\ pc = "delete" =>
             \A i \in 1..(idx - 1) :
                 \/ refs[branches_to_delete[i]] = NoCommit
                 \/ \E e \in stderr : e[1] = branches_to_delete[i]
      ]_vars

\* C5 witness: of two branches the first failed, the second was deleted, and
\* the run ended with the report and exit status zero
C5_Witness ==
    /\ Reported
    /\ Len(branches_to_delete) = 2
    /\ refs[branches_to_delete[1]] # NoCommit
    /\ refs[branches_to_delete[2]] = NoCommit
    /\ deleted_count = 1

\* the tip of b is a proper ancestor of the tip of base, both being branches
Landed(rf, b, base) ==
    /\ find_branch_ok(rf, b)
    /\ find_branch_ok(rf, base)
    /\ rf[b] \in Ancestors(rf[base])

\* the branch the delete loop is about to delete
NextToDelete == branches_to_delete[idx]

\* the delete loop is about to delete a branch
Deleting == pc = "delete" /\ idx <= Len(branches_to_delete)

\* C6: with force the merge filter leaves the candidates as they are and
\* every branch handed to the delete loop is deleted whatever its merge
\* status; without force a branch is deleted only if it is merged.
C6_ForceSkipsFilterAndMergeCheck ==
    [][/\ (cli.force /\ pc = "filter") => branches' = branches
       /\ (cli.force /\ Deleting) =>
             /\ refs'[NextToDelete] = NoCommit
             /\ deleted_count' = deleted_count + 1
       /\ (~cli.force /\ Deleting) =>
             (refs'[NextToDelete] = NoCommit <=> Landed(refs, NextToDelete, base_branch))
      ]_vars

\* C6 witness: a forced run ended after deleting a branch it had listed
\* without the merged label
C6_Witness ==
    /\ cli.force
    /\ Reported
    /\ find_branch_ok(refs, base_branch)
    /\ \E b \in BranchNames :
          Line("list", b, "plain", 0) \in stdout /\ refs[b] = NoCommit

\* merged mode: no mode flag, or --merged
MergedMode == ~cli.all /\ ~cli.select /\ ~cli.force

\* C7: in merged mode the branches proposed are exactly the candidates whose
\* tip is merged into the base; when the merge query fails (the base is not
\* a branch) the candidate is dropped and the filter step does not fail.
C7_MergedModeKeepsExactlyMerged ==
    [][(MergedMode /\ pc = "filter") =>
          /\ Range(branches') = {b \in Range(branches) : Landed(refs, b, base_branch)}
          /\ exit' # "error"
          /\ stderr' = stderr
          /\ pc' = "confirm" \/ (branches' = <<>> /\ exit' = "ok")
      ]_vars

\* C7 witness: merged mode proposes one candidate and has dropped another
C7_Witness ==
    /\ MergedMode
    /\ pc = "confirm"
    /\ branches # <<>>
    /\ \E b \in LocalBranches(refs) \ {current_branch, base_branch} :
          b \notin Range(branches)

\* the candidates of the invocation
CandidateSet == LocalBranches(refs) \ {current_branch, base_branch}

\* the select prompts answered so far
SelectPrompts(ps) == {q \in ps : q.kind = "select"}

\* C8 as stated: in select mode every candidate is offered for confirmation.
C8_SelectOffersEveryCandidate ==
    (cli.select /\ pc = "select") => Range(branches) = CandidateSet

\* C8 amended: in select mode the merge filter is applied first unless force
\* is set; every branch that is left (with force every candidate, without
\* force the merged candidates) is offered with its computed merge-status
\* label, and exactly the branches answered yes are passed to deletion.
C8_SelectOffersFilteredCandidates ==
    [][/\ (cli.select /\ pc = "select") =>
             /\ Range(branches) =
                   IF cli.force THEN CandidateSet
                   ELSE {b \in CandidateSet : Landed(refs, b, base_branch)}
             /\ \A q \in prompts' \ prompts :
                   /\ q.kind = "select"
                   /\ q.branch = branches[idx]
                   /\ q.label = "merged" <=> Landed(refs, q.branch, base_branch)
       /\ (cli.select /\ pc = "select" /\ pc' # "select" /\ exit' # "cancelled") =>
             /\ {q.branch : q \in SelectPrompts(prompts')} = Range(branches)
             /\ Range(branches_to_delete') =
                   {q.branch : q \in {r \in SelectPrompts(prompts') : r.answer = "yes"}}
       /\ (cli.select /\ Deleting) =>
             ConfirmedIn(prompts, {"select"}, NextToDelete)
      ]_vars

\* C8 witness: in select mode one offered branch was confirmed and another
\* was declined, and the delete loop is about to start
C8_Witness ==
    /\ cli.select
    /\ pc = "delete"
    /\ deleted_count = 0
    /\ Len(branches_to_delete) >= 1
    /\ Len(branches) > Len(branches_to_delete)

\* C9: --force together with --merged is rejected by the argument parser:
\* the process ends with a usage error, the repository is never opened, no
\* branch is read and nothing is deleted or asked.
C9_ForceWithMergedRejectedBeforeOpen ==
    (cli.force /\ cli.merged) =>
        /\ pc = "exit" /\ exit = "usage"
        /\ ~opened
        /\ refs = NoRefs
        /\ branches = <<>>
        /\ prompts = {} /\ pushed = {} /\ deleted_count = 0

\* C9 witness: an invocation with --force and --merged has ended
C9_Witness == cli.force /\ cli.merged /\ ~cli.all /\ exit = "usage"

\* the batch was confirmed in all mode
AllModeConfirmed ==
    cli.all /\ \E q \in prompts : q.kind = "batch" /\ q.answer = "yes"

BaseReturned == pc = "returned" /\ call.fn = "detect_base_branch"

\* C11: detect_base_branch returns the configured base when one is
\* configured; otherwise the first of main, master, develop, in that order,
\* that is a local branch; and it fails with BaseBranchNotFound when nothing
\* is configured and none of the three exists.
C11_ConfiguredElseFirstOfMainMasterDevelop ==
    BaseReturned =>
        IF configBase # NoConfig THEN ret = OkName(configBase)
        ELSE IF refs["main"] # NoCommit THEN ret = OkName("main")
        ELSE IF refs["master"] # NoCommit THEN ret = OkName("master")
        ELSE IF refs["develop"] # NoCommit THEN ret = OkName("develop")
        ELSE ret = Err("BaseBranchNotFound")

\* a configured base wins over an existing main
C11_Witness ==
    /\ BaseReturned
    /\ configBase = "develop"
    /\ refs["main"] # NoCommit
    /\ ret = OkName("develop")

\* C12: whenever base-branch resolution succeeds the returned name is an
\* existing local branch, and when the name it would return, a configured one
\* included, does not exist, resolution fails.
C12_ResolvedBaseExists ==
    BaseReturned =>
        /\ ret.ok => find_branch_ok(refs, ret.name)
        /\ (configBase # NoConfig /\ ~find_branch_ok(refs, configBase)) => ~ret.ok

\* the local delete of branch b succeeded in this run
LocallyDeleted(b) == Line("Deleted local branch", b, "", 0) \in stdout

\* C13: remote deletion is offered for a branch only after its local delete
\* succeeded in this run and a remote-tracking reference was found; a failure
\* while deleting or checking a remote branch is reported and never aborts
\* the batch: unless the user cancels, a run that started deleting ends
\* with every chosen branch processed.
C13_RemoteFailureNeverAbortsBatch ==
    /\ pc = "remote_prompt" => LocallyDeleted(branches_to_delete[idx])
    /\ \A q \in prompts : q.kind = "remote" => LocallyDeleted(q.branch)
    /\ (pc = "exit" /\ branches_to_delete # <<>> /\ exit # "cancelled") =>
            /\ exit = "ok"
            /\ idx = Len(branches_to_delete) + 1

\* find_git_repos has returned
ScanReturned == pc = "returned" /\ call.fn = "find_git_repos"

\* p is a proper ancestor of q
ProperAncestor(p, q) == Len(p) < Len(q) /\ SubSeq(q, 1, Len(p)) = p

\* C14: the tree scan never returns nested entries: no returned repository
\* path is a proper ancestor of another returned path.
C14_ScanReturnsNoNestedEntries ==
    ScanReturned =>
        \A p \in Range(ret.paths), q \in Range(ret.paths) : ~ProperAncestor(p, q)

\* root/a and root/a/b both hold a marker and only root/a is returned
C14_Witness ==
    /\ ScanReturned
    /\ fs[<<"root", "a">>] = "repo"
    /\ fs[<<"root", "a", "b">>] = "repo"
    /\ <<"root", "a">> \in Range(ret.paths)
    /\ <<"root", "a", "b">> \notin Range(ret.paths)

\* the depth of an entry below the root
Depth(n) == Len(n) - Len(RepoRoot)

\* the entries at or below the root
BelowRoot == {n \in FsNodes : n = RepoRoot \/ ProperAncestor(RepoRoot, n)}

\* the repositories the scan is to find
Findable(f) ==
    {n \in BelowRoot :
        /\ f[n] = "repo"
        /\ Depth(n) <= 3
        /\ \A m \in BelowRoot : ProperAncestor(m, n) => f[m] # "repo"}

\* C15: the scan returns exactly the marker-holding directories at depth 0..3
\* below the root that have no marker-holding ancestor at or below the root,
\* each exactly once; nothing deeper than depth 3 and nothing that is not a
\* directory is returned.
C15_ScanReturnsExactlyShallowOutermostRepos ==
    ScanReturned =>
        /\ Range(ret.paths) = Findable(fs)
        /\ Len(ret.paths) = Cardinality(Findable(fs))
        /\ \A p \in Range(ret.paths) : Depth(p) <= 3 /\ fs[p] = "repo"

\* a repository at root/domain/user/repo, depth 3, is found next to one at depth 1
C15_Witness ==
    /\ ScanReturned
    /\ fs[<<"root", "a", "b", "c">>] = "repo"
    /\ fs[<<"root", "e">>] = "repo"
    /\ ret.paths = << <<"root", "a", "b", "c">>, <<"root", "e">> >>

\* has_unpushed_commits has returned
UnpushedReturned == pc = "returned" /\ call.fn = "has_unpushed_commits"

\* the commits of the history of tip
History(tip) == Ancestors(tip) \cup {tip}

\* C18: the unpushed-commits check is true exactly when HEAD is on a named
\* branch, an upstream reference for that branch exists and the local tip is
\* ahead of the upstream tip by at least one commit; a detached HEAD, a
\* missing HEAD or a missing upstream yields false, not an error; and how far
\* the upstream is ahead of the local tip makes no difference.
C18_UnpushedIffOnBranchWithUpstreamAndAhead ==
    UnpushedReturned =>
        /\ ret.ok
        /\ ret.val <=>
                /\ call.hd = "branch"
                /\ call.upstream # NoCommit
                /\ \E c \in History(call.local) : c \notin History(call.upstream)
        /\ \A u \in Commits :
                (call.upstream # NoCommit
                 /\ History(call.local) \ History(u)
                        = History(call.local) \ History(call.upstream)) =>
                    has_unpushed_commits(call.hd, call.local, u) = ret.val

\* the two tips have diverged: local is ahead and behind, and the answer is true
C18_Witness ==
    /\ UnpushedReturned
    /\ call.hd = "branch"
    /\ call.upstream # NoCommit
    /\ Unrelated(call.local, call.upstream)
    /\ ret = OkBool(TRUE)

\* the two warnings of delete_repo and their confirmations
WarningKinds == {"uncommitted", "unpushed"}
Warned(kind) ==
    <<"", IF kind = "uncommitted" THEN "Warning: uncommitted changes"
          ELSE "Warning: unpushed commits">> \in stderr
Asking(kind) ==
    pc = (IF kind = "uncommitted" THEN "rd_ask_dirty" ELSE "rd_ask_unpushed")
Answered(kind, answer) == RdPrompt(kind, answer) \in prompts
Applies(kind) ==
    IF kind = "uncommitted" THEN rd_status.dirty ELSE rd_status.unpushed

\* the directory at the target is still there, marker included
TargetUntouched ==
    /\ has_git_marker(fs, target_path)
    /\ Line("Deleted repository", "", "", 0) \notin stdout

\* declining a warning ends the run with the directory untouched, a removal
\* had every applicable warning accepted, and force asks about no warning
DecliningEndsUntouchedForceAsksNothing ==
    /\ \A kind \in WarningKinds :
            Answered(kind, "no") => (pc = "exit" /\ exit = "ok" /\ TargetUntouched)
    /\ (~rd_args.force /\ Line("Deleted repository", "", "", 0) \in stdout) =>
            \A kind \in WarningKinds : Applies(kind) => Answered(kind, "yes")
    /\ rd_args.force =>
            \A kind \in WarningKinds :
                /\ ~Asking(kind)
                /\ \A answer \in Answers : ~Answered(kind, answer)

\* C16 as stated: without force, each warning that applies triggers a blocking
\* confirmation; declining any of them ends the invocation with the
\* repository directory untouched; with force neither warning blocks.
C16_EachWarningBlocksWithoutForce ==
    /\ ~rd_args.force =>
            \A kind \in WarningKinds :
                Warned(kind) => (Asking(kind) \/ \E answer \in Answers : Answered(kind, answer))
    /\ DecliningEndsUntouchedForceAsksNothing

\* C16, amended: without force and without dry_run, each warning that applies
\* triggers a blocking confirmation; declining any of them ends the
\* invocation with the repository directory untouched; with force neither
\* warning blocks, and with dry_run the warnings are printed and none is
\* asked about.
C16_EachWarningBlocksWithoutForceAndDryRun ==
    /\ (~rd_args.force /\ ~rd_args.dry_run) =>
            \A kind \in WarningKinds :
                Warned(kind) => (Asking(kind) \/ \E answer \in Answers : Answered(kind, answer))
    /\ rd_args.dry_run =>
            \A kind \in WarningKinds :
                /\ ~Asking(kind)
                /\ \A answer \in Answers : ~Answered(kind, answer)
    /\ DecliningEndsUntouchedForceAsksNothing

\* the first warning was accepted and the second declined
C16_Witness ==
    /\ pc = "exit"
    /\ ~rd_args.force
    /\ Answered("uncommitted", "yes")
    /\ Answered("unpushed", "no")
    /\ TargetUntouched

RenameStep == pc = "cl_select" /\ ClPrompt("rename") \in prompts'

\* the lowest k >= 2 for which repo-k does not exist
LowestFree(dirs) ==
    CHOOSE k \in Slots :
        /\ k >= 2
        /\ dirs[k] = "none"
        /\ \A j \in 2..(k - 1) : dirs[j] # "none"

\* C19: rename-on-collision clones into repo-k for the lowest k >= 2 for which
\* that path does not yet exist; the original target and every existing
\* repo-N directory are left unchanged, and nothing but that clone is run.
C19_RenameClonesIntoLowestFreeSuffix ==
    [][RenameStep =>
        LET k == LowestFree(clone_dirs)
        IN  /\ pc' = "exit"
            /\ \A j \in Slots \ {k} : clone_dirs'[j] = clone_dirs[j]
            /\ \/ exit' = "ok" /\ clone_dirs'[k] = "cloned"
               \/ exit' = "error" /\ clone_dirs'[k] = "none"
            /\ clone_ops' = clone_ops \o <<Op("create_dir_all", 0), Op("clone", k)>>
      ]_vars

\* with repo and repo-2 existing the clone went into repo-3
C19_Witness ==
    /\ pc = "exit"
    /\ exit = "ok"
    /\ ClPrompt("rename") \in prompts
    /\ clone_dirs[1] = "repo"
    /\ clone_dirs[2] = "repo"
    /\ clone_dirs[3] = "cloned"
    /\ clone_ops = <<Op("create_dir_all", 0), Op("clone", 3)>>

\* the url parses, the target exists and standard input is not a terminal
NonInteractiveCollision ==
    /\ pc = "cl_start"
    /\ ~clone_args.tty
    /\ slot_exists(clone_dirs, 1)
    /\ Line("Directory already exists", "", "", 0) \in stdout'

\* C20: when the clone target already exists and standard input is not a
\* terminal, the collision policy defaults to Skip: no prompt is shown,
\* nothing is cloned, pulled or removed, the directories are unchanged and
\* the invocation succeeds.
C20_NonInteractiveCollisionSkips ==
    [][NonInteractiveCollision =>
        /\ pc' = "exit"
        /\ exit' = "ok"
        /\ prompts' = {}
        /\ clone_ops' = <<>>
        /\ clone_dirs' = clone_dirs
        /\ Line("Skipped", "", "", 0) \in stdout'
        /\ stderr' = {}
      ]_vars

\* a non-interactive run that found its target and skipped
C20_Witness ==
    /\ pc = "exit"
    /\ exit = "ok"
    /\ ~clone_args.tty
    /\ slot_exists(clone_dirs, 1)
    /\ Line("Skipped", "", "", 0) \in stdout
    /\ prompts = {}
    /\ clone_ops = <<>>

\* the step answers the collision prompt with Update
UpdateStep == pc = "cl_select" /\ ClPrompt("update") \in prompts'

\* C21: choosing Update on a collision fails with the dirty-working-tree
\* error when the existing repository has uncommitted changes, and otherwise
\* delegates to the external pull: the pull is never run on a repository
\* with uncommitted changes, and a failed pull is surfaced as an error.
C21_UpdateRefusesDirtyElsePulls ==
    [][UpdateStep =>
        /\ pc' = "exit"
        /\ clone_dirs[1] = "dirty" =>
                /\ exit' = "error"
                /\ <<"", "Cannot update: repository has uncommitted changes">> \in stderr'
                /\ clone_ops' = clone_ops
                /\ clone_dirs' = clone_dirs
        /\ clone_dirs[1] \in Openable \ {"dirty"} =>
                /\ clone_ops' = Append(clone_ops, Op("pull", 1))
                /\ \/ /\ exit' = "ok"
                      /\ clone_dirs' = [clone_dirs EXCEPT ![1] = "pulled"]
                      /\ Line("Successfully updated", "", "", 0) \in stdout'
                   \/ /\ exit' = "error"
                      /\ <<"", "Failed to pull">> \in stderr'
                      /\ Line("Successfully updated", "", "", 0) \notin stdout'
      ]_vars

\* Update was chosen on a repository with uncommitted changes and refused
C21_Witness ==
    /\ pc = "exit"
    /\ exit = "error"
    /\ ClPrompt("update") \in prompts
    /\ clone_dirs[1] = "dirty"
    /\ clone_ops = <<>>
    /\ <<"", "Cannot update: repository has uncommitted changes">> \in stderr

\* the step answers the collision prompt with Replace
ReplaceStep == pc = "cl_select" /\ ClPrompt("replace") \in prompts'

\* the positions of an operation in the log
OpsAt(ops, op) == {i \in 1..Len(ops) : ops[i].op = op}

\* C22: choosing Replace on a collision removes the existing target and then
\* clones into the same path: a removal happens only after Replace was
\* chosen and strictly before the clone starts, and a clone that then fails
\* leaves the target absent.
C22_ReplaceRemovesThenClonesSameTarget ==
    [][/\ \A i \in OpsAt(clone_ops', "remove_dir_all") :
            /\ ClPrompt("replace") \in prompts'
            /\ clone_ops'[i].slot = 1
            /\ \A j \in OpsAt(clone_ops', "clone") : i < j
       /\ ReplaceStep =>
            /\ pc' = "exit"
            /\ \A k \in Slots \ {1} : clone_dirs'[k] = clone_dirs[k]
            /\ \/ /\ exit' = "error"
                  /\ clone_ops' = <<Op("remove_dir_all", 1)>>
                  /\ clone_dirs' = clone_dirs
               \/ /\ clone_ops' = <<Op("remove_dir_all", 1), Op("create_dir_all", 0),
                                    Op("clone", 1)>>
                  /\ \/ exit' = "ok" /\ clone_dirs'[1] = "cloned"
                     \/ exit' = "error" /\ clone_dirs'[1] = "none"
      ]_vars

\* Replace was chosen, the directory was removed and the clone then failed
C22_Witness ==
    /\ pc = "exit"
    /\ exit = "error"
    /\ ClPrompt("replace") \in prompts
    /\ clone_ops = <<Op("remove_dir_all", 1), Op("create_dir_all", 0), Op("clone", 1)>>
    /\ clone_dirs[1] = "none"

\* parse_repo_url has returned
ParseReturned == pc = "returned" /\ call.fn = "parse_repo_url"

\* the call names a repository by at least two path segments, none empty
NamesRepository(c) ==
    /\ c.form \in {"ssh", "https"}
    /\ Len(c.segs) >= 2
    /\ \A i \in 1..Len(c.segs) : c.segs[i] # ""

\* the canonical urls of a parse result, one of either form
CanonicalSsh(info) ==
    <<"git", "@">> \o info.domain \o <<":">> \o info.user \o <<"/">> \o info.repo
        \o <<".git">>
CanonicalHttps(info) ==
    <<"https://">> \o info.domain \o <<"/">> \o info.user \o <<"/">> \o info.repo
        \o <<".git">>

\* C23: for all valid SSH-form (user@host:path) and HTTPS-form urls with at
\* least 2 path segments naming the same repository, parse_repo_url yields
\* identical {domain, user, repo} regardless of form, and re-parsing the
\* canonical url reconstructed from a parse result yields the same result.
C23_SameRepoInfoInEitherFormAndReparseStable ==
    (ParseReturned /\ NamesRepository(call)) =>
        /\ ret.ok
        /\ ret = parse_repo_url(SshUrl(call.user, call.host, call.segs, call.dotgit))
        /\ ret = parse_repo_url(HttpsUrl(call.host, call.segs, call.dotgit))
        /\ ret = parse_repo_url(CanonicalSsh(ret.info))
        /\ ret = parse_repo_url(CanonicalHttps(ret.info))

\* C24: parse_repo_url fails whenever fewer than 2 path segments are present,
\* in either form, or the SSH form has no colon-separated path half;
\* consequently a successful parse yields a non-empty user and a non-empty
\* repo name.
C24_FewerThanTwoSegmentsFailSoUserAndRepoNonEmpty ==
    ParseReturned =>
        /\ (call.form = "ssh_nocolon" \/ Len(call.segs) < 2) => ~ret.ok
        /\ ret.ok => (ret.info.user # <<>> /\ ret.info.repo # <<>>)

\* the repository was opened and a resolution step failed
ResolutionFailed ==
    /\ opened
    /\ \/ head = Detached
       \/ /\ configBase = NoConfig
          /\ \A b \in {"main", "master", "develop"} : ~find_branch_ok(refs, b)

\* C25: a resolution failure aborts the whole branch-delete invocation before
\* anything is mutated: if HEAD does not point at a named branch or the base
\* branch cannot be resolved, the invocation ends with an error, no
\* confirmation is shown and no branch is deleted.
C25_ResolutionFailureAbortsBeforeMutation ==
    ResolutionFailed =>
        /\ pc = "exit"
        /\ exit = "error"
        /\ stderr # {}
        /\ prompts = {}
        /\ pushed = {}
        /\ deleted_count = 0
        /\ remote_deleted_count = 0
        /\ branches_to_delete = <<>>
        /\ \A b \in BranchNames : ~LocallyDeleted(b)

\* HEAD is detached in a repository that has branches
C25_Witness ==
    /\ pc = "exit"
    /\ opened
    /\ head = Detached
    /\ refs["main"] # NoCommit
    /\ refs["x"] # NoCommit
    /\ stderr = {<<"", "HEAD is detached">>}

\* the pull requests gh was run for and that were not fetched
FailedPulls == {pr_numbers[i] : i \in 1..(pr_idx - 1)} \ Range(pulls)

\* C26: in the PR-detail fetch loop a failure for one pull request is
\* caught, reported individually and does not abort the batch: every
\* remaining number is still fetched and the invocation exits zero even if
\* every individual fetch failed.
C26_FetchFailureReportedAndNeverAborts ==
    /\ \A n \in FailedPulls : \E report \in stderr : report[1] = ToString(n)
    /\ (pc = "exit" /\ pr_numbers # <<>> /\ ~pm_cli.web) =>
            /\ exit = "ok"
            /\ pr_idx = Len(pr_numbers) + 1

\* get_recent_branches has returned
RecentReturned == pc = "returned" /\ call.fn = "get_recent_branches"

\* the entries of a reflog that are checkout moves to branch b
MovesTo(reflog, b) ==
    {i \in 1..Len(reflog) :
        /\ Len(reflog[i]) = 6
        /\ reflog[i][1] = "checkout:"
        /\ reflog[i][2] = "moving"
        /\ reflog[i][3] = "from"
        /\ reflog[i][5] = "to"
        /\ reflog[i][6] = b}

\* the smallest member of a non-empty set of numbers
Least(S) == CHOOSE n \in S : \A m \in S : n <= m

\* C27: get_recent_branches returns the destination branches Y of the
\* 'checkout: moving from X to Y' entries, without duplicates and in the
\* order of their first occurrence when the reflog is scanned most recent
\* first; entries that are not checkout moves contribute nothing.
C27_RecentBranchesAreCheckoutDestinationsFirstSeen ==
    RecentReturned =>
        LET names == ret.names
            reflog == call.reflog
        IN  /\ ret.ok
            /\ Range(names) = {b \in {"main", "x", "to", "from"} : MovesTo(reflog, b) # {}}
            /\ \A i \in 1..Len(names), j \in 1..Len(names) :
                    /\ i # j => names[i] # names[j]
                    /\ i < j => Least(MovesTo(reflog, names[i]))
                                    < Least(MovesTo(reflog, names[j]))

\* the most recent checkout went to x, an older one to main, the oldest to
\* x again: x comes first and once
C27_Witness ==
    /\ RecentReturned
    /\ call.reflog = <<CheckoutMessage("main", "x"), CheckoutMessage("x", "main"),
                       CheckoutMessage("main", "x")>>
    /\ ret.names = <<"x", "main">>

\* C28: throughout a non-force branch-delete batch, the base branch that
\* delete_branch re-resolves for each deletion equals the base branch
\* resolved once at the start of the invocation: no sequence of earlier
\* deletions changes the result of base resolution.
C28_BaseResolutionStableThroughBatch ==
    (opened /\ base_branch # "" /\ ~cli.force) =>
        detect_base_branch(refs, configBase) = OkName(base_branch)

\* a non-force batch after its first deletion, with more to delete and the
\* base found among the candidates main, master, develop
C28_Witness ==
    /\ pc = "delete"
    /\ ~cli.force
    /\ configBase = NoConfig
    /\ deleted_count >= 1
    /\ idx <= Len(branches_to_delete)
    /\ detect_base_branch(refs, configBase) = OkName(base_branch)

\* the directory lies at or below the configured root
LiesUnderRoot(p) ==
    Len(p) >= Len(RepoRoot) /\ SubSeq(p, 1, Len(RepoRoot)) = RepoRoot

\* the path argument of a direct invocation names nothing that may be removed:
\* it is absent, does not exist, has no .git entry, or resolves outside the root
RefusedArgument(f, args) ==
    /\ ~args.interactive
    /\ \/ ~args.repo_path.some
       \/ LET full_path == path_join(RepoRoot, args.repo_path)
          IN  \/ KindOf(f, Resolve(f, full_path)) = "none"
              \/ KindOf(f, Resolve(f, full_path)) # "repo"
              \/ ~LiesUnderRoot(Resolve(f, full_path))

\* C29: git-repo delete only ever removes a directory that lies under the
\* configured root and contains a repository marker; a path argument that
\* does not exist, has no .git entry or resolves outside the root, and an
\* invocation with neither a path nor the interactive flag, remove nothing.
C29_RemovesOnlyRepositoriesUnderRoot ==
    [][(pc # "rd_start" /\ fs' # fs) =>
          /\ LiesUnderRoot(Resolve(fs, target_path))
          /\ KindOf(fs, Resolve(fs, target_path)) = "repo"
          /\ ~RefusedArgument(fs, rd_args)]_vars

====
